---------------------------- MODULE Spec2Model ----------------------------
(***************************************************************************)
(* Athrok persistence engine: the process-wide StorageManager registry,    *)
(* the per-key StorageHandler (versioned read, debounced write) and the    *)
(* AthrokMaster container (lazy one-shot hydration, listeners).            *)
(*                                                                         *)
(* JavaScript values are tagged records.  An object is Obj(f) with f a     *)
(* function from property names to values; a JSON text is a value of its   *)
(* own tag, so that JSON.stringify / JSON.parse are real conversions.      *)
(***************************************************************************)
EXTENDS Integers, Sequences, FiniteSets, TLC

(***************************************************************************)
(* Bounds of the model.                                                    *)
(***************************************************************************)
\* operations (calls, timer firings, clock ticks) in one behaviour of each
\* specification
MaxOpsHydrate == 4
MaxOpsListen == 5
MaxOpsDebounce == 7
MaxOpsRegistry == 5
MaxOpsRace == 6
MaxOpsFault == 6
MaxOpsOrder == 6
\* calls of StorageManager.initialize in one behaviour
MaxInits == 2
\* the clock stops here
MaxTime == 160

(***************************************************************************)
(* JavaScript values.                                                      *)
(***************************************************************************)
Undef == [t |-> "undefined"]
Null == [t |-> "null"]
Num(n) == [t |-> "number", n |-> n]
Str(s) == [t |-> "string", s |-> s]
Obj(f) == [t |-> "object", f |-> f]
Arr(s) == [t |-> "array", s |-> s]
Json(d) == [t |-> "json", d |-> d]
\* the number NaN
NaN == [t |-> "NaN"]

EmptyProps == [k \in {} |-> Undef]

\* o.k for a value o: undefined when o has no such property
Prop(o, k) ==
  IF o.t = "object" /\ k \in DOMAIN o.f THEN o.f[k] ELSE Undef

\* the property name of an array index
IndexName(i) == CASE i = 1 -> "0" [] i = 2 -> "1" [] OTHER -> "2"

\* the own enumerable properties an object spread {...v} copies
Spread(v) ==
  CASE v.t = "object" -> v.f
    [] v.t = "array" -> [k \in {IndexName(i) : i \in DOMAIN v.s} |->
                           v.s[CHOOSE i \in DOMAIN v.s : IndexName(i) = k]]
    [] OTHER -> EmptyProps

\* the properties of {...a, ...b}
SpreadOver(a, b) ==
  [k \in DOMAIN Spread(a) \cup DOMAIN Spread(b) |->
     IF k \in DOMAIN Spread(b) THEN Spread(b)[k] ELSE Spread(a)[k]]

\* a ?? b
Coalesce(a, b) == IF a.t \in {"undefined", "null"} THEN b ELSE a

\* a == b on undefined, null and numbers
LooseEq(a, b) ==
  IF a.t \in {"undefined", "null"} \/ b.t \in {"undefined", "null"}
  THEN a.t \in {"undefined", "null"} /\ b.t \in {"undefined", "null"}
  ELSE a = b

(***************************************************************************)
(* utils/functions                                                         *)
(***************************************************************************)
NotFound == [t |-> "NotFound"]

isObject(item) == item.t = "object"

shallowMergeFirstWins(a, b) == Obj(SpreadOver(b, a))

shallowMerge(a, b) == Obj(SpreadOver(Obj(SpreadOver(Obj(EmptyProps), a)), b))

checkStartString(functionName, startString) ==
  /\ Len(functionName) >= Len(startString)
  /\ SubSeq(functionName, 1, Len(startString)) = startString

(***************************************************************************)
(* JSON.  stringify drops the properties whose value is undefined (at any  *)
(* depth of an object), writes null for an undefined array element and for *)
(* NaN; parse gives back what the text holds.                              *)
(***************************************************************************)
RECURSIVE JsonDoc(_)
JsonDoc(v) ==
  CASE v.t = "object" ->
         LET kept == {k \in DOMAIN v.f : v.f[k].t # "undefined"}
         IN Obj([k \in kept |-> JsonDoc(v.f[k])])
    [] v.t = "array" ->
         Arr([i \in DOMAIN v.s |->
                IF v.s[i].t = "undefined" THEN Null ELSE JsonDoc(v.s[i])])
    [] v.t = "NaN" -> Null
    [] OTHER -> v

JSONstringify(v) == Json(JsonDoc(v))

\* a non-empty string that is not JSON
Malformed == [t |-> "text", s |-> "{oops"]

\* what JSON.parse raises on such a string
SyntaxError == [t |-> "SyntaxError"]

\* JSON.parse(text): the document, or a SyntaxError raised
JSONparse(text) == IF text.t = "json" THEN text.d ELSE SyntaxError

\* if (value): null, undefined and the empty string are falsy; the strings
\* here are not empty
Truthy(value) == value.t \notin {"undefined", "null"}

(***************************************************************************)
(* utils/constants                                                         *)
(***************************************************************************)
ATHROK_KEY_LABEL == "@athrok:"
ATHROK_CONFIG_LABEL == "@athrok-config"


(***************************************************************************)
(* Functions a program hands to the library, by name.                      *)
(***************************************************************************)
\* persist.migrate
MigrateFns == {"to99"}
\* persist.partial: the default (data) => data, and one that keeps property a
PartialFns == {"identity", "pickA"}
\* persist.merge: the default shallowMerge, and one that lets the initial win
MergeFns == {"shallowMerge", "initialWins"}
\* an update function given to set()
UpdateFns == {"bump"}

Migrate(fn, stored) == Obj([a |-> Num(99)])

Partial(fn, data) ==
  IF fn = "pickA" /\ data.t = "object"
  THEN Obj([k \in DOMAIN data.f \cap {"a"} |-> data.f[k]])
  ELSE data

MergeInitialWins(fn, initial, stored) == shallowMerge(stored, initial)

Merge(fn, initial, stored) ==
  IF fn = "initialWins" THEN shallowMerge(stored, initial)
  ELSE shallowMerge(initial, stored)

\* (prev) => ({...prev, a: prev.a + 1}) on an object with a numeric a,
\* (prev) => prev + 1 on a number
Update(fn, prev) ==
  CASE prev.t = "number" -> Num(prev.n + 1)
    [] prev.t = "object" /\ Prop(prev, "a").t = "number" ->
         Obj(SpreadOver(prev, Obj([a |-> Num(Prop(prev, "a").n + 1)])))
    [] OTHER -> prev

(***************************************************************************)
(* State.                                                                  *)
(***************************************************************************)
VARIABLES
  storage,               \* StorageManager.storage: which backend is installed
  backend,               \* what the backend holds: key -> JSON text
  backendLog,            \* the calls the backend has received, in order
  persistData,           \* StorageManager.persistData
  persistenceKeys,       \* StorageManager.persistenceKeys, in insertion order
  isPersistDataRestored, \* StorageManager.isPersistDataRestored
  pending,               \* the initialize calls suspended at an await
  master,                \* the containers: the fields of AthrokMaster
  handler,               \* each container's storageHandler
  disposers,             \* the disposers subscribe() has returned
  timers,                \* the pending setTimeout tasks
  nextTimerId,           \* the id the next setTimeout returns
  now,                   \* the clock
  behaviour,             \* what each listener function does when invoked
  world,                 \* the inputs the program draws its arguments from
  probe,                 \* per container: calls of getItem and of migrate
  last,                  \* the latest operation and what it returned
  ops                    \* operations so far

registryVars ==
  <<storage, backend, backendLog, persistData, persistenceKeys,
    isPersistDataRestored, pending>>
containerVars == <<master, handler, disposers, probe>>
timerVars == <<timers, nextTimerId>>
vars ==
  <<storage, backend, backendLog, persistData, persistenceKeys,
    isPersistDataRestored, pending, master, handler, disposers, timers, nextTimerId,
    now, behaviour, world, probe, last, ops>>

Containers == {1, 2}
Listeners == {1, 2, 3}

Range(s) == {s[i] : i \in DOMAIN s}

SetAddAgain(s, e) == Append(s, e)

\* Set.prototype.add and Set.prototype.delete on an insertion-ordered set
SetAdd(s, e) == IF e \in Range(s) THEN s ELSE Append(s, e)
SetDelete(s, e) == SelectSeq(s, LAMBDA x : x # e)

(***************************************************************************)
(* storage/manager: the backend and the registry.                          *)
(***************************************************************************)
UninitializedStorage == "UninitializedStorage"

\* what a read gives when the backend fails it: getItem raises, or returns
\* a promise that rejects
Rejects == [t |-> "rejects"]

\* the keys whose reads and whose writes the installed backend fails
NoFaults == [reads |-> {}, writes |-> {}]
Faults == IF "faults" \in DOMAIN world THEN world.faults ELSE NoFaults

storageSetItemUnguarded(reg, key, text) ==
  [reg EXCEPT
     !.backend = [k \in DOMAIN @ \cup {key} |-> IF k = key THEN text ELSE @[k]],
     !.backendLog = Append(@, [op |-> "setItem", key |-> key, value |-> text])]

\* storage.setItem(key, text) on the installed backend; the uninitialized
\* one warns and does nothing, a write the backend fails raises
storageSetItem(reg, key, text) ==
  IF reg.storage = UninitializedStorage THEN reg
  ELSE IF key \in reg.faults.writes
  THEN [reg EXCEPT
          !.backendLog = Append(@, [op |-> "setItem", key |-> key,
                                    value |-> text]),
          !.rejected = TRUE]
  ELSE [reg EXCEPT
          !.backend = [k \in DOMAIN @ \cup {key} |->
                         IF k = key THEN text ELSE @[k]],
          !.backendLog = Append(@, [op |-> "setItem", key |-> key,
                                    value |-> text])]

storageRemoveItem(reg, key) ==
  IF reg.storage = UninitializedStorage THEN reg
  ELSE [reg EXCEPT
          !.backend = [k \in DOMAIN @ \ {key} |-> @[k]],
          !.backendLog = Append(@, [op |-> "removeItem", key |-> key,
                                    value |-> Undef])]

\* storage.getItem(key): the text, or null
storageGetItem(reg, key) ==
  IF reg.storage # UninitializedStorage /\ key \in reg.faults.reads
  THEN Rejects
  ELSE IF reg.storage # UninitializedStorage /\ key \in DOMAIN reg.backend
  THEN reg.backend[key] ELSE Null

logGetItem(reg, key) ==
  IF reg.storage = UninitializedStorage THEN reg
  ELSE [reg EXCEPT !.backendLog =
          Append(@, [op |-> "getItem", key |-> key, value |-> Undef])]

\* the registry as one record, for the operators that thread it
\* (rejected: whether the call being run has raised)
Registry ==
  [storage |-> storage, backend |-> backend, backendLog |-> backendLog,
   persistData |-> persistData, persistenceKeys |-> persistenceKeys,
   isPersistDataRestored |-> isPersistDataRestored, pending |-> pending,
   faults |-> Faults, rejected |-> FALSE]

SetRegistry(reg) ==
  /\ storage' = reg.storage
  /\ backend' = reg.backend
  /\ backendLog' = reg.backendLog
  /\ persistData' = reg.persistData
  /\ persistenceKeys' = reg.persistenceKeys
  /\ isPersistDataRestored' = reg.isPersistDataRestored
  /\ pending' = reg.pending

KeysArray(keys) == Arr([i \in DOMAIN keys |-> Str(keys[i])])

syncPersistentConfig(reg) ==
  IF reg.storage # UninitializedStorage
  THEN storageSetItem(reg, ATHROK_CONFIG_LABEL,
         JSONstringify(Obj([keys |-> KeysArray(reg.persistenceKeys)])))
  ELSE reg

setPersistenceKeyWithoutSync(reg, key) ==
  [reg EXCEPT !.persistenceKeys = SetAdd(@, key)]

setPersistenceKey(reg, key) ==
  syncPersistentConfig(
    [reg EXCEPT !.persistenceKeys = SetAdd(@, key)])

clearPersistenceKeepsKey(reg, key) ==
  syncPersistentConfig(storageRemoveItem(reg, key))

clearPersistenceDropsCache(reg, key) ==
  syncPersistentConfig(
    storageRemoveItem(
      [reg EXCEPT !.persistenceKeys = SetDelete(@, key),
                  !.persistData = [k \in DOMAIN @ \ {key} |-> @[k]]], key))

clearPersistenceWithoutSync(reg, key) ==
  storageRemoveItem([reg EXCEPT !.persistenceKeys = SetDelete(@, key)], key)

clearPersistence(reg, key) ==
  syncPersistentConfig(
    storageRemoveItem(
      [reg EXCEPT !.persistenceKeys = SetDelete(@, key)], key))


(***************************************************************************)
(* storage/handler: UninitializedStorageHandler and StorageHandler.        *)
(***************************************************************************)
\* persist.debounceTime when the configuration gives none
DefaultDebounceTime == 100

\* a property of a configuration object: undefined when it is not given
Cfg(config, k) == IF k \in DOMAIN config THEN config[k] ELSE Undef

UninitializedStorageHandler ==
  [kind |-> "UninitializedStorageHandler", key |-> "",
   config |-> [enable |-> FALSE], timeoutId |-> 0]

StorageHandlerUnprefixed(storeName, persisConfig) ==
  [kind |-> "StorageHandler",
   key |-> storeName,
   config |-> persisConfig @@
              [debounceTime |-> DefaultDebounceTime,
               partial |-> "identity",
               merge |-> "shallowMerge"],
   timeoutId |-> 0]

\* new StorageHandler(storeName, persisConfig), before it registers its key
StorageHandler(storeName, persisConfig) ==
  [kind |-> "StorageHandler",
   key |-> ATHROK_KEY_LABEL \o storeName,
   config |-> persisConfig @@
              [debounceTime |-> DefaultDebounceTime,
               partial |-> "identity",
               merge |-> "shallowMerge"],
   timeoutId |-> 0]

VersionsEqualWhenGiven(a, b) == a.t = "number" /\ a = b

\* this.config.version == version
VersionsEqual(a, b) == LooseEq(a, b)

getItemFromBackend(h, data) ==
  LET entry == IF h.key \in DOMAIN backend /\ backend[h.key].t = "json"
               THEN backend[h.key].d ELSE Undef
      value == Prop(entry, "value")
      version == Prop(entry, "version")
  IN IF h.kind = "UninitializedStorageHandler" \/ ~isObject(entry)
     THEN [ret |-> NotFound, migrated |-> <<>>]
     ELSE IF VersionsEqual(Cfg(h.config, "version"), version)
     THEN [ret |-> value, migrated |-> <<>>]
     ELSE IF "migrate" \in DOMAIN h.config
     THEN [ret |-> Migrate(h.config["migrate"], value),
           migrated |-> <<value>>]
     ELSE [ret |-> NotFound, migrated |-> <<>>]

getItemMigratesRecord(h, data) ==
  LET entry == IF h.key \in DOMAIN data THEN data[h.key] ELSE Undef
      value == Prop(entry, "value")
      version == Prop(entry, "version")
  IN IF h.kind = "UninitializedStorageHandler" \/ ~isObject(entry)
     THEN [ret |-> NotFound, migrated |-> <<>>]
     ELSE IF VersionsEqual(Cfg(h.config, "version"), version)
     THEN [ret |-> value, migrated |-> <<>>]
     ELSE IF "migrate" \in DOMAIN h.config
     THEN [ret |-> Migrate(h.config["migrate"], entry),
           migrated |-> <<entry>>]
     ELSE [ret |-> NotFound, migrated |-> <<>>]

\* StorageHandler.getItem (and UninitializedStorageHandler.getItem): what it
\* returns, and the arguments of the calls of migrate it made
getItem(h, data) ==
  LET entry == IF h.key \in DOMAIN data THEN data[h.key] ELSE Undef
      value == Prop(entry, "value")
      version == Prop(entry, "version")
  IN IF h.kind = "UninitializedStorageHandler" \/ ~isObject(entry)
     THEN [ret |-> NotFound, migrated |-> <<>>]
     ELSE IF VersionsEqual(Cfg(h.config, "version"), version)
     THEN [ret |-> value, migrated |-> <<>>]
     ELSE IF "migrate" \in DOMAIN h.config
     THEN [ret |-> Migrate(h.config["migrate"], value),
           migrated |-> <<value>>]
     ELSE [ret |-> NotFound, migrated |-> <<>>]

clearTimeoutNot(tms, id) == tms

\* clearTimeout(id)
clearTimeout(tms, id) == {tm \in tms : tm.id # id}

setItemCancelsAll(m, c, data, clock) ==
  IF m.hnd.kind = "UninitializedStorageHandler" THEN m
  ELSE [m EXCEPT
          !.tms = {[id |-> m.nid, c |-> c, data |-> data,
                    due |-> clock + m.hnd.config["debounceTime"]]},
          !.hnd.timeoutId = m.nid,
          !.nid = @ + 1]

setItemAlwaysSchedules(m, c, data, clock) ==
  [m EXCEPT
     !.tms = @ \cup {[id |-> m.nid, c |-> c, data |-> data,
                      due |-> clock + DefaultDebounceTime]},
     !.nid = @ + 1]

\* StorageHandler.setItem(data) of container c at time clock, on the machine
\* m: the pending task is cancelled and a new one is scheduled
setItem(m, c, data, clock) ==
  IF m.hnd.kind = "UninitializedStorageHandler" THEN m
  ELSE [m EXCEPT
          !.tms = clearTimeout(@, m.hnd.timeoutId) \cup
                    {[id |-> m.nid, c |-> c, data |-> data,
                      due |-> clock + m.hnd.config["debounceTime"]]},
          !.hnd.timeoutId = m.nid,
          !.nid = @ + 1]

timerCallbackUnguarded(reg, h, data) ==
  storageSetItemUnguarded(reg, h.key,
    JSONstringify(Obj([value |-> Partial(h.config["partial"], data),
                       version |-> Cfg(h.config, "version")])))

timerCallbackWhenRegistered(reg, h, data) ==
  IF h.key \in Range(reg.persistenceKeys)
  THEN storageSetItem(reg, h.key,
         JSONstringify(Obj([value |-> Partial(h.config["partial"], data),
                            version |-> Cfg(h.config, "version")])))
  ELSE reg

timerCallbackRetries(reg, h, data) ==
  LET text == JSONstringify(Obj([value |-> Partial(h.config["partial"], data),
                                 version |-> Cfg(h.config, "version")]))
      reg1 == storageSetItem(reg, h.key, text)
  IN IF reg1.rejected THEN storageSetItem(reg1, h.key, text) ELSE reg1

timerCallbackWithoutPartial(reg, h, data) ==
  storageSetItem(reg, h.key,
    JSONstringify(Obj([value |-> data, version |-> Cfg(h.config, "version")])))

\* the body of the scheduled task: the write of {value, version}
timerCallback(reg, h, data) ==
  storageSetItem(reg, h.key,
    JSONstringify(Obj([value |-> Partial(h.config["partial"], data),
                       version |-> Cfg(h.config, "version")])))

(***************************************************************************)
(* store/master: AthrokMaster.  A call runs on a machine m: the fields of  *)
(* the container (mst), of its handler (hnd), the timer queue (tms, nid),  *)
(* the probe (prb) and what the call has done so far.                      *)
(***************************************************************************)
Machine(c) ==
  [mst |-> master[c], hnd |-> handler[c], tms |-> timers, nid |-> nextTimerId,
   prb |-> probe[c], trace |-> <<>>, args |-> <<>>, thrown |-> FALSE]

initializeValueStateReplaces(m, data) ==
  LET got == getItem(m.hnd, data)
      storedValue == got.ret
      m1 == [m EXCEPT !.prb.getItemCalls = @ + 1,
                      !.prb.got = storedValue,
                      !.prb.migrateArgs = @ \o got.migrated,
                      !.mst.hydrated = TRUE]
  IN IF storedValue # NotFound /\ m.hnd.kind = "StorageHandler"
     THEN CASE m.mst.type = "AthrokState" ->
                 [m1 EXCEPT !.mst.currentValue = storedValue]
            [] m.mst.type = "AthrokStore" ->
                 [m1 EXCEPT !.mst.currentValue =
                    Merge(m.hnd.config["merge"], m.mst.currentValue,
                          Coalesce(storedValue, Obj(EmptyProps)))]
            [] OTHER -> m1
     ELSE m1

\* AthrokMaster.initializeValue, the first fetchCurrentState
initializeValue(m, data) ==
  LET got == getItem(m.hnd, data)
      storedValue == got.ret
      m1 == [m EXCEPT !.prb.getItemCalls = @ + 1,
                      !.prb.got = storedValue,
                      !.prb.migrateArgs = @ \o got.migrated,
                      !.mst.hydrated = TRUE]
  IN IF storedValue # NotFound /\ m.hnd.kind = "StorageHandler"
     THEN CASE m.mst.type = "AthrokState" ->
                 IF isObject(m.mst.initialValue) /\ isObject(storedValue)
                 THEN [m1 EXCEPT !.mst.currentValue =
                         Merge(m.hnd.config["merge"], m.mst.currentValue,
                               storedValue)]
                 ELSE [m1 EXCEPT !.mst.currentValue = storedValue]
            [] m.mst.type = "AthrokStore" ->
                 [m1 EXCEPT !.mst.currentValue =
                    Merge(m.hnd.config["merge"], m.mst.currentValue,
                          Coalesce(storedValue, Obj(EmptyProps)))]
            [] OTHER -> m1
     ELSE m1

fetchCurrentStateAlwaysInitializes(m, data) == initializeValue(m, data)

fetchCurrentStateNeverInitializes(m, data) == [m EXCEPT !.mst.hydrated = TRUE]

\* this.fetchCurrentState(): initializeValue until it has run once, then a
\* read of currentValue
fetchCurrentState(m, data) ==
  IF m.mst.hydrated THEN m ELSE initializeValue(m, data)


\* an update function, as the argument of set()
Fn(name) == [t |-> "function", fn |-> name]

EmptiedFrom(listeners, l) ==
  [i \in DOMAIN listeners |->
     IF \E j \in 1..i : listeners[j] = l THEN 0 ELSE listeners[i]]

\* Set.prototype.delete while a forEach may be running: the entry is emptied
\* in place, so the positions of the other entries do not move
Emptied(listeners, l) ==
  [i \in DOMAIN listeners |-> IF listeners[i] = l THEN 0 ELSE listeners[i]]

\* the empty entries are dropped once no forEach is running
Compact(listeners) == SelectSeq(listeners, LAMBDA x : x # 0)

disposeKeepsListener(m, l) ==
  [m EXCEPT !.prb.disposed = @ \cup {l},
            !.trace = Append(@, [e |-> "dispose", l |-> l, v |-> Undef,
                                 depth |-> 0])]

\* the disposer subscribe(l) returned: this.listeners.delete(l)
dispose(m, l) ==
  [m EXCEPT !.mst.listeners = Emptied(@, l),
            !.prb.disposed = @ \cup {l},
            !.trace = Append(@, [e |-> "dispose", l |-> l, v |-> Undef,
                                 depth |-> 0])]

RECURSIVE set(_, _, _, _)
RECURSIVE forEach(_, _, _, _)

\* the call listener(value) of listener function l
listener(m, c, l, value, depth) ==
  LET b == behaviour[l]
      m1 == [m EXCEPT !.trace = Append(@, [e |-> "listener", l |-> l,
                                           v |-> value, depth |-> depth])]
  IN CASE b.kind = "dispose" -> dispose(m1, b.l)
       [] b.kind = "set" /\ value # b.v -> set(m1, c, b.v, depth + 1)
       [] b.kind = "get" ->
            LET m2 == fetchCurrentState(m1, persistData)
            IN [m2 EXCEPT !.trace = Append(@, [e |-> "get", l |-> l,
                                               v |-> m2.mst.currentValue,
                                               depth |-> depth])]
       [] b.kind = "throw" ->
            [m1 EXCEPT !.thrown = TRUE,
                       !.trace = Append(@, [e |-> "throw", l |-> l,
                                            v |-> Undef, depth |-> depth])]
       [] OTHER -> m1

forEachFromSecond(m, c, i, depth) ==
  IF m.thrown \/ i > Len(m.mst.listeners) THEN m
  ELSE IF m.mst.listeners[i] = 0 \/ i = 1 THEN forEach(m, c, i + 1, depth)
  ELSE forEach(listener(m, c, m.mst.listeners[i], m.mst.currentValue, depth),
               c, i + 1, depth)

\* this.listeners.forEach((listener) => listener(this.currentValue)), from
\* entry i on: insertion order, emptied entries skipped, an exception ends it
forEach(m, c, i, depth) ==
  IF m.thrown \/ i > Len(m.mst.listeners) THEN m
  ELSE IF m.mst.listeners[i] = 0 THEN forEach(m, c, i + 1, depth)
  ELSE forEach(listener(m, c, m.mst.listeners[i], m.mst.currentValue, depth),
               c, i + 1, depth)

setAlwaysPersists(m, c, updateAction, depth) ==
  LET m0 == [m EXCEPT !.trace = Append(@, [e |-> "set", l |-> 0,
                                           v |-> updateAction,
                                           depth |-> depth])]
      m1 == fetchCurrentState(m0, persistData)
      m2 == IF updateAction.t = "function"
            THEN [m1 EXCEPT
                    !.mst.currentValue = Update(updateAction.fn, @),
                    !.args = Append(@, m1.mst.currentValue)]
            ELSE [m1 EXCEPT !.mst.currentValue = updateAction]
      m3 == forEach(m2, c, 1, depth)
  IN setItem([m3 EXCEPT !.trace =
                Append(@, [e |-> "setItem", l |-> 0,
                           v |-> m3.mst.currentValue, depth |-> depth])],
             c, m3.mst.currentValue, now)

setPersistsOwnValue(m, c, updateAction, depth) ==
  LET m0 == [m EXCEPT !.trace = Append(@, [e |-> "set", l |-> 0,
                                           v |-> updateAction,
                                           depth |-> depth])]
      m1 == fetchCurrentState(m0, persistData)
      m2 == IF updateAction.t = "function"
            THEN [m1 EXCEPT
                    !.mst.currentValue = Update(updateAction.fn, @),
                    !.args = Append(@, m1.mst.currentValue)]
            ELSE [m1 EXCEPT !.mst.currentValue = updateAction]
      m3 == forEach(m2, c, 1, depth)
  IN IF m3.thrown THEN m3
     ELSE setItem([m3 EXCEPT !.trace =
                     Append(@, [e |-> "setItem", l |-> 0,
                                v |-> m2.mst.currentValue, depth |-> depth])],
                  c, m2.mst.currentValue, now)

setAssignsLast(m, c, updateAction, depth) ==
  LET m0 == [m EXCEPT !.trace = Append(@, [e |-> "set", l |-> 0,
                                           v |-> updateAction,
                                           depth |-> depth])]
      m1 == fetchCurrentState(m0, persistData)
      m2 == forEach(m1, c, 1, depth)
      m3 == IF updateAction.t = "function"
            THEN [m2 EXCEPT
                    !.mst.currentValue = Update(updateAction.fn, @),
                    !.args = Append(@, m2.mst.currentValue)]
            ELSE [m2 EXCEPT !.mst.currentValue = updateAction]
  IN IF m3.thrown THEN m3
     ELSE setItem([m3 EXCEPT !.trace =
                     Append(@, [e |-> "setItem", l |-> 0,
                                v |-> m3.mst.currentValue, depth |-> depth])],
                  c, m3.mst.currentValue, now)

\* AthrokMaster.set(updateAction)
set(m, c, updateAction, depth) ==
  LET m0 == [m EXCEPT !.trace = Append(@, [e |-> "set", l |-> 0,
                                           v |-> updateAction,
                                           depth |-> depth])]
      m1 == fetchCurrentState(m0, persistData)
      m2 == IF updateAction.t = "function"
            THEN [m1 EXCEPT
                    !.mst.currentValue = Update(updateAction.fn, @),
                    !.args = Append(@, m1.mst.currentValue)]
            ELSE [m1 EXCEPT !.mst.currentValue = updateAction]
      m3 == forEach(m2, c, 1, depth)
      m4 == IF m3.thrown THEN m3
            ELSE setItem([m3 EXCEPT !.trace =
                            Append(@, [e |-> "setItem", l |-> 0,
                                       v |-> m3.mst.currentValue,
                                       depth |-> depth])],
                         c, m3.mst.currentValue, now)
  IN m4

\* AthrokMaster.get()
get(m) == fetchCurrentState(m, persistData)

\* AthrokMaster.subscribe(listener); the disposer is kept in disposers
subscribe(m, l) ==
  [m EXCEPT !.mst.listeners = SetAdd(@, l),
            !.prb.disposed = @ \ {l}]


(***************************************************************************)
(* StorageManager.initialize.  With a synchronous backend no read yields a *)
(* promise and the whole call runs without suspending; with an             *)
(* asynchronous one the call suspends at the config read and then at the   *)
(* per-key reads, and is kept in pending until it ends.                    *)
(***************************************************************************)
addKeysReplacing(keys, more) == [i \in DOMAIN more |-> more[i].s]

\* configData.keys?.forEach((key) => persistenceKeys.add(key))
RECURSIVE addKeys(_, _)
addKeys(keys, more) ==
  IF more = <<>> THEN keys
  ELSE addKeys(SetAdd(keys, Head(more).s), Tail(more))

beginInitializeResetsFlag(reg, kind) ==
  logGetItem([reg EXCEPT !.storage = kind, !.isPersistDataRestored = FALSE],
             ATHROK_CONFIG_LABEL)

\* new StorageManager(config) and the call storage.getItem(ATHROK_CONFIG_LABEL)
beginInitialize(reg, kind) ==
  logGetItem([reg EXCEPT !.storage = kind], ATHROK_CONFIG_LABEL)

\* from the config text to the re-write: the parse, the union of the keys and
\* syncPersistentConfig; JSON.parse, a property read on null and forEach on
\* what is no array raise
configContinuation(reg, configDataString) ==
  LET configData == IF Truthy(configDataString)
                    THEN JSONparse(configDataString) ELSE Obj(EmptyProps)
      keys == Prop(configData, "keys")
  IN IF configDataString = Rejects THEN [reg EXCEPT !.rejected = TRUE]
     ELSE IF configData = SyntaxError \/ configData.t \in {"null", "undefined"}
     THEN [reg EXCEPT !.rejected = TRUE]
     ELSE IF keys.t \in {"undefined", "null"} THEN syncPersistentConfig(reg)
     ELSE IF keys.t = "array"
     THEN syncPersistentConfig(
            [reg EXCEPT !.persistenceKeys = addKeys(@, keys.s)])
     ELSE [reg EXCEPT !.rejected = TRUE]

everyKey(keys) == keys

\* the keys whose records a pass reads: the registered keys, as they are
\* when the reads are issued, that carry the prefix
prefixed(keys) ==
  SelectSeq(keys, LAMBDA key : checkStartString(key, ATHROK_KEY_LABEL))

cacheRecordUnparsed(reg, key, value) ==
  IF ~Truthy(value) THEN reg
  ELSE [reg EXCEPT !.persistData =
          [k \in DOMAIN @ \cup {key} |-> IF k = key THEN value ELSE @[k]]]

\* if (value) persistData[key] = JSON.parse(value)
cacheRecord(reg, key, value) ==
  IF value = Rejects THEN [reg EXCEPT !.rejected = TRUE]
  ELSE IF ~Truthy(value) THEN reg
  ELSE IF JSONparse(value) = SyntaxError THEN [reg EXCEPT !.rejected = TRUE]
  ELSE [reg EXCEPT !.persistData =
          [k \in DOMAIN @ \cup {key} |->
             IF k = key THEN JSONparse(value) ELSE @[k]]]

\* synchronous backend: the config read and what follows it
initializeConfig(reg, kind) ==
  LET reg1 == beginInitialize(reg, kind)
  IN configContinuation(reg1, storageGetItem(reg1, ATHROK_CONFIG_LABEL))

\* synchronous backend: the read of one key's record and its caching
initializeKey(reg, key) ==
  cacheRecord(logGetItem(reg, key), key, storageGetItem(reg, key))

RECURSIVE initializeKeys(_, _)
initializeKeys(reg, keys) ==
  IF keys = <<>> THEN reg
  ELSE initializeKeys(initializeKey(reg, Head(keys)), Tail(keys))

\* synchronous backend: the whole call.  A callback of the per-key map that
\* raises rejects a promise nobody awaits
initialize(reg, kind) ==
  LET reg1 == initializeConfig(reg, kind)
      reg2 == initializeKeys(reg1, prefixed(reg1.persistenceKeys))
  IN IF reg1.rejected THEN reg1
     ELSE [reg2 EXCEPT !.isPersistDataRestored = TRUE, !.rejected = FALSE]

\* asynchronous backend: the call up to await configDataPromise.  A
\* suspended call holds the text its config read was issued on (text), the
\* keys that were registered when it was made (before), the keys whose
\* records it reads (keys), the texts those reads were issued on
\* (reads, the outstanding ones) and whether a callback has raised
initializeAsync(reg) ==
  LET reg1 == beginInitialize(reg, "async")
      id == reg1.pending.calls + 1
  IN [reg1 EXCEPT !.pending =
        [calls |-> id,
         open |-> @.open \cup
                    {[id |-> id, stage |-> "config",
                      text |-> storageGetItem(reg1, ATHROK_CONFIG_LABEL),
                      before |-> reg.persistenceKeys,
                      keys |-> <<>>,
                      reads |-> [k \in {} |-> Undef],
                      rejected |-> FALSE]}]]

\* the calls storage.getItem(key) the per-key map makes, in order
RECURSIVE logGetItems(_, _)
logGetItems(reg, keys) ==
  IF keys = <<>> THEN reg
  ELSE logGetItems(logGetItem(reg, Head(keys)), Tail(keys))

\* asynchronous backend: from the config read's result to the awaits of the
\* per-key reads (to the end of the call when there is nothing to read)
resumeAtConfig(reg, call, configDataString) ==
  LET reg0 == [reg EXCEPT !.pending.open = @ \ {call}]
      reg1 == configContinuation(reg0, configDataString)
      keys == prefixed(reg1.persistenceKeys)
      reg2 == logGetItems(reg1, keys)
  IN IF reg1.rejected THEN reg1
     ELSE IF keys = <<>> THEN [reg2 EXCEPT !.isPersistDataRestored = TRUE]
     ELSE [reg2 EXCEPT !.pending.open =
             @ \cup {[call EXCEPT !.stage = "keys",
                                  !.keys = keys,
                                  !.reads = [k \in Range(keys) |->
                                               storageGetItem(reg2, k)]]}]

resumeAtKeyFlagsEarly(reg, call, key, value) ==
  LET reg0 == [reg EXCEPT !.pending.open = @ \ {call}]
      reg1 == cacheRecord(reg0, key, value)
      left == [k \in DOMAIN call.reads \ {key} |-> call.reads[k]]
      rejected == call.rejected \/ reg1.rejected
  IN IF DOMAIN left = {}
     THEN [reg1 EXCEPT !.isPersistDataRestored = TRUE]
     ELSE [reg1 EXCEPT !.isPersistDataRestored = TRUE,
                       !.pending.open =
             @ \cup {[call EXCEPT !.reads = left, !.rejected = rejected]}]

\* asynchronous backend: one per-key read resolves and its callback goes on;
\* when it was the last, Promise.all settles and the call ends: with the
\* flag set unless a callback has raised
resumeAtKey(reg, call, key, value) ==
  LET reg0 == [reg EXCEPT !.pending.open = @ \ {call}]
      reg1 == cacheRecord(reg0, key, value)
      left == [k \in DOMAIN call.reads \ {key} |-> call.reads[k]]
      rejected == call.rejected \/ reg1.rejected
  IN IF DOMAIN left = {}
     THEN IF rejected THEN reg1
          ELSE [reg1 EXCEPT !.isPersistDataRestored = TRUE]
     ELSE [reg1 EXCEPT !.pending.open =
             @ \cup {[call EXCEPT !.reads = left, !.rejected = rejected]}]

(***************************************************************************)
(* Actions: one per call the program makes, per timer firing and per tick  *)
(* of the clock.                                                           *)
(***************************************************************************)
NoContainer ==
  [live |-> FALSE, type |-> "", initialValue |-> Undef,
   currentValue |-> Undef, listeners |-> <<>>, hydrated |-> FALSE]

\* getItemCalls: calls of handler.getItem; got: what the latest one returned;
\* migrateArgs: the argument of each call of migrate; disposed: the listeners
\* whose disposer was invoked after their latest subscribe; ended: the
\* container and its handler as they were when the program was last ended
NoProbe ==
  [getItemCalls |-> 0, got |-> Undef, migrateArgs |-> <<>>, disposed |-> {},
   ended |-> [mst |-> NoContainer, hnd |-> UninitializedStorageHandler]]

\* what the latest operation was: its name, container, listener and argument,
\* what it returned, the calls it made (trace), the arguments its update
\* function received (args) and whether it raised
Did(op, c, l, arg, m) ==
  /\ last' = [op |-> op, c |-> c, l |-> l, arg |-> arg,
              ret |-> m.mst.currentValue, trace |-> m.trace,
              args |-> m.args, thrown |-> m.thrown]
  /\ ops' = ops + 1

DidRegistry(op, c, arg) ==
  /\ last' = [op |-> op, c |-> c, l |-> 0, arg |-> arg, ret |-> Undef,
              trace |-> <<>>, args |-> <<>>, thrown |-> FALSE]
  /\ ops' = ops + 1

\* the machine's state becomes the program's
Commit(m, c) ==
  /\ master' = [master EXCEPT ![c] =
                  [m.mst EXCEPT !.listeners = Compact(@)]]
  /\ handler' = [handler EXCEPT ![c] = m.hnd]
  /\ probe' = [probe EXCEPT ![c] = m.prb]
  /\ timers' = m.tms
  /\ nextTimerId' = m.nid

neverParent(type) == FALSE

\* new.target === AthrokMaster
isParent(type) == type = "AthrokMaster"

\* new AthrokStore(initialValue, callback, config),
\* new AthrokState(initialValue, config) or, which raises before anything
\* is done, new AthrokMaster(initialValue, config)
New(c, type, initialValue, config) ==
  /\ ops < world.maxOps
  /\ ~master[c].live
  /\ LET persistent == /\ "name" \in DOMAIN config
                       /\ "persist" \in DOMAIN config
                       /\ config["persist"]["enable"]
     IN IF isParent(type)
        THEN UNCHANGED <<master, handler, registryVars>>
        ELSE
        /\ master' = [master EXCEPT ![c] =
                        [live |-> TRUE, type |-> type,
                         initialValue |-> initialValue,
                         currentValue |-> initialValue,
                         listeners |-> <<>>, hydrated |-> FALSE]]
        /\ IF persistent
           THEN LET h == StorageHandler(config["name"], config["persist"])
                IN /\ handler' = [handler EXCEPT ![c] = h]
                   /\ SetRegistry(setPersistenceKey(Registry, h.key))
           ELSE /\ handler' = [handler EXCEPT ![c] =
                                 UninitializedStorageHandler]
                /\ UNCHANGED registryVars
  /\ last' = [op |-> "new", c |-> c, l |-> 0, arg |-> config,
              ret |-> Str(type), trace |-> <<>>, args |-> <<>>,
              thrown |-> isParent(type)]
  /\ ops' = ops + 1
  /\ UNCHANGED <<disposers, probe, timerVars, now, behaviour, world>>

Get(c) ==
  /\ ops < world.maxOps
  /\ master[c].live
  /\ LET m == get(Machine(c))
     IN Commit(m, c) /\ Did("get", c, 0, Undef, m)
  /\ UNCHANGED <<registryVars, disposers, now, behaviour, world>>

Set(c, updateAction) ==
  /\ ops < world.maxOps
  /\ master[c].live
  /\ LET m == set(Machine(c), c, updateAction, 0)
     IN Commit(m, c) /\ Did("set", c, 0, updateAction, m)
  /\ UNCHANGED <<registryVars, disposers, now, behaviour, world>>

Subscribe(c, l) ==
  /\ ops < world.maxOps
  /\ master[c].live
  /\ LET m == subscribe(Machine(c), l)
     IN Commit(m, c) /\ Did("subscribe", c, l, Undef, m)
  /\ disposers' = Append(disposers, [c |-> c, l |-> l, invoked |-> FALSE])
  /\ UNCHANGED <<registryVars, now, behaviour, world>>

\* the program invokes the disposer that the i-th subscribe() returned
Dispose(i) ==
  /\ ops < world.maxOps
  /\ i \in DOMAIN disposers
  /\ LET c == disposers[i].c
         m == dispose(Machine(c), disposers[i].l)
     IN Commit(m, c) /\ Did("dispose", c, disposers[i].l, Num(i), m)
  /\ disposers' = [disposers EXCEPT ![i].invoked = TRUE]
  /\ UNCHANGED <<registryVars, now, behaviour, world>>

\* a step of an initialize call: which call, the text the read it went on
\* from gave, the key of that read, whether the step raised
DidInitialize(op, id, value, key, rejected) ==
  /\ last' = [op |-> op, c |-> id, l |-> 0, arg |-> value, ret |-> key,
              trace |-> <<>>, args |-> <<>>, thrown |-> rejected]
  /\ ops' = ops + 1

\* StorageManager.initialize({storage}) with a synchronous backend
InitializeSync ==
  /\ ops < world.maxOps
  /\ pending.calls < world.maxInits
  /\ LET reg == initialize(Registry, "sync")
     IN /\ SetRegistry([reg EXCEPT !.pending.calls = @ + 1])
        /\ DidInitialize("initialize", pending.calls + 1,
                         storageGetItem([Registry EXCEPT !.storage = "sync"],
                                        ATHROK_CONFIG_LABEL),
                         Undef, reg.rejected)
  /\ UNCHANGED <<containerVars, timerVars, now, behaviour, world>>

\* StorageManager.initialize({storage}) with an asynchronous backend, up to
\* its first await
InitializeAsync ==
  /\ ops < world.maxOps
  /\ pending.calls < world.maxInits
  /\ SetRegistry(initializeAsync(Registry))
  /\ DidInitialize("initializeAsync", pending.calls + 1, Undef, Undef, FALSE)
  /\ UNCHANGED <<containerVars, timerVars, now, behaviour, world>>

\* what a read issued earlier resolves with: what the backend held under the
\* key when the read was issued, or what it holds now
Resolutions(issued, key) == {issued, storageGetItem(Registry, key)}

\* the config read of a suspended call resolves
ResolveConfig(call) ==
  /\ ops < world.maxOps
  /\ call \in pending.open
  /\ call.stage = "config"
  /\ \E value \in Resolutions(call.text, ATHROK_CONFIG_LABEL) :
       LET reg == resumeAtConfig(Registry, call, value)
       IN /\ SetRegistry(reg)
          /\ DidInitialize("resolveConfig", call.id, value, Undef,
                           reg.rejected)
  /\ UNCHANGED <<containerVars, timerVars, now, behaviour, world>>

\* a per-key read of a suspended call resolves
ResolveKey(call, key) ==
  /\ ops < world.maxOps
  /\ call \in pending.open
  /\ call.stage = "keys"
  /\ key \in DOMAIN call.reads
  /\ \E value \in Resolutions(call.reads[key], key) :
       LET reg == resumeAtKey(Registry, call, key, value)
       IN /\ SetRegistry(reg)
          /\ DidInitialize("resolveKey", call.id, value, Str(key),
                           reg.rejected)
  /\ UNCHANGED <<containerVars, timerVars, now, behaviour, world>>

\* StorageManager.setPersistenceKey(key), called by the program
SetPersistenceKey(key) ==
  /\ ops < world.maxOps
  /\ SetRegistry(setPersistenceKey(Registry, key))
  /\ DidRegistry("setPersistenceKey", 0, Str(key))
  /\ UNCHANGED <<containerVars, timerVars, now, behaviour, world>>

\* StorageManager.clearPersistence(key), called by the program
ClearPersistence(key) ==
  /\ ops < world.maxOps
  /\ SetRegistry(clearPersistence(Registry, key))
  /\ DidRegistry("clearPersistence", 0, Str(key))
  /\ UNCHANGED <<containerVars, timerVars, now, behaviour, world>>

Due == {tm \in timers : tm.due <= now}

\* the timer that is due first runs its task
Fire(tm) ==
  /\ ops < world.maxOps
  /\ tm \in Due
  /\ \A other \in Due :
       tm.due < other.due \/ (tm.due = other.due /\ tm.id <= other.id)
  /\ timers' = timers \ {tm}
  /\ LET reg == timerCallback(Registry, handler[tm.c], tm.data)
     IN /\ SetRegistry(reg)
        /\ last' = [op |-> "fire", c |-> tm.c, l |-> 0, arg |-> tm.data,
                    ret |-> Undef, trace |-> <<>>, args |-> <<>>,
                    thrown |-> reg.rejected]
        /\ ops' = ops + 1
  /\ UNCHANGED <<containerVars, nextTimerId, now, behaviour, world>>

Min(a, b) == IF a <= b THEN a ELSE b

\* when the next pending timer falls due; MaxTime when none is pending
NextDue ==
  IF timers = {} THEN MaxTime
  ELSE (CHOOSE tm \in timers : \A other \in timers : tm.due <= other.due).due

\* time passes: by d, but no further than the next timer that falls due
Tick(d) ==
  /\ ops < world.maxOps
  /\ Due = {}
  /\ now < MaxTime
  /\ now' = Min(Min(now + d, NextDue), MaxTime)
  /\ DidRegistry("tick", 0, Undef)
  /\ UNCHANGED <<registryVars, containerVars, timerVars, behaviour, world>>

\* the program ends and is started anew: the static fields of the registry
\* have their initial values, no container exists and no timer is pending;
\* the backend holds what it held
Restart ==
  /\ ops < world.maxOps
  /\ pending.calls < world.maxInits
  /\ storage' = UninitializedStorage
  /\ persistData' = [k \in {} |-> Undef]
  /\ persistenceKeys' = <<>>
  /\ isPersistDataRestored' = FALSE
  /\ pending' = [pending EXCEPT !.open = {}]
  /\ master' = [c \in Containers |-> NoContainer]
  /\ handler' = [c \in Containers |-> UninitializedStorageHandler]
  /\ disposers' = <<>>
  /\ probe' = [c \in Containers |->
                [NoProbe EXCEPT !.ended = [mst |-> master[c],
                                           hnd |-> handler[c]]]]
  /\ timers' = {}
  /\ nextTimerId' = 1
  /\ DidRegistry("restart", 0, Undef)
  /\ UNCHANGED <<backend, backendLog, now, behaviour, world>>

DoNew ==
  \E c \in world.containers, n \in world.news :
    New(c, n.type, n.initialValue, n.config)
DoGet == \E c \in world.containers : Get(c)
DoSet == \E c \in world.containers, u \in world.updates : Set(c, u)
DoSubscribe == \E c \in world.containers, l \in world.listeners : Subscribe(c, l)
DoDispose == \E i \in DOMAIN disposers : Dispose(i)
DoFire == \E tm \in timers : Fire(tm)
DoTick == \E d \in world.steps : Tick(d)
DoResolveConfig == \E call \in pending.open : ResolveConfig(call)
DoResolveKey ==
  \E call \in pending.open : \E key \in DOMAIN call.reads :
    ResolveKey(call, key)
DoSetPersistenceKey == \E key \in world.keys : SetPersistenceKey(key)
DoClearPersistence == \E key \in world.keys : ClearPersistence(key)

(***************************************************************************)
(* Initial states: nothing constructed, no backend installed.  The world   *)
(* (what the program will pass, what the backend already holds, what the   *)
(* listeners do) is drawn here and never changes.                          *)
(***************************************************************************)
Plain == [kind |-> "plain", l |-> 0, v |-> Undef]
Disposing(l) == [kind |-> "dispose", l |-> l, v |-> Undef]
Setting(v) == [kind |-> "set", l |-> 0, v |-> v]
Throwing == [kind |-> "throw", l |-> 0, v |-> Undef]
Getting == [kind |-> "get", l |-> 0, v |-> Undef]

InitWith(w, b, held) ==
  /\ storage = UninitializedStorage
  /\ backend = held
  /\ backendLog = <<>>
  /\ persistData = [k \in {} |-> Undef]
  /\ persistenceKeys = <<>>
  /\ isPersistDataRestored = FALSE
  /\ pending = [calls |-> 0, open |-> {}]
  /\ master = [c \in Containers |-> NoContainer]
  /\ handler = [c \in Containers |-> UninitializedStorageHandler]
  /\ disposers = <<>>
  /\ timers = {}
  /\ nextTimerId = 1
  /\ now = 0
  /\ behaviour = b
  /\ world = w
  /\ probe = [c \in Containers |-> NoProbe]
  /\ last = [op |-> "none", c |-> 0, l |-> 0, arg |-> Undef, ret |-> Undef,
             trace |-> <<>>, args |-> <<>>, thrown |-> FALSE]
  /\ ops = 0

\* initial values
AB == Obj([a |-> Num(0), b |-> Num(2)])
Ten == Num(10)

\* the name of the store and its persistence key
StoreName == "s"
StoreKey == ATHROK_KEY_LABEL \o StoreName

\* persist configurations: version, migrate and merge given or not
PersistConfigs ==
  {[enable |-> TRUE] @@ v @@ g @@ mg :
     v \in {EmptyProps, [version |-> Num(1)]},
     g \in {EmptyProps, [migrate |-> "to99"]},
     mg \in {EmptyProps, [merge |-> "initialWins"]}}

\* the store configurations: a name only, persistence switched off,
\* persistence without a name, and the persistent ones
StoreConfigs ==
  {[name |-> StoreName], [name |-> StoreName, persist |-> [enable |-> FALSE]],
   [persist |-> [enable |-> TRUE]]}
    \cup {[name |-> StoreName, persist |-> p] : p \in PersistConfigs}

\* the configurations the abstract base is constructed with
BaseConfigs ==
  {[name |-> StoreName], [name |-> StoreName, persist |-> [enable |-> TRUE]]}

\* what the backend may hold under the store's key
Records ==
  {Obj([value |-> Obj([a |-> Num(1)]), version |-> Num(0)]),
   Obj([value |-> Obj([a |-> Num(1)]), version |-> Num(1)]),
   Obj([value |-> Obj([a |-> Num(1)])]),
   Obj([value |-> Num(20), version |-> Num(1)]),
   Obj([value |-> Null]),
   Obj([version |-> Num(1)]),
   Num(5)}

ConfigText(keys) == JSONstringify(Obj([keys |-> KeysArray(keys)]))

\* a backend: nothing, or a record under the store's key, listed in the
\* registry-config record or not
Backends ==
  {[k \in {} |-> Undef]}
    \cup {[k \in {StoreKey} |-> JSONstringify(r)] : r \in Records}
    \cup {[k \in {StoreKey, ATHROK_CONFIG_LABEL} |->
             IF k = StoreKey THEN JSONstringify(r)
             ELSE ConfigText(<<StoreKey>>)] : r \in Records}

HydrateWorld ==
  [maxOps |-> MaxOpsHydrate, maxInits |-> 1, steps |-> {}, containers |-> {1},
   listeners |-> {1},
   news |-> [type : {"AthrokStore"}, initialValue : {AB}, config : StoreConfigs]
            \cup [type : {"AthrokState"}, initialValue : {AB, Ten},
                  config : StoreConfigs]
            \cup [type : {"AthrokMaster"}, initialValue : {AB},
                  config : BaseConfigs],
   updates |-> {Fn("bump"), Obj([a |-> Num(5)])}]

InitHydrate ==
  \E held \in Backends :
    InitWith(HydrateWorld, [l \in Listeners |-> Plain], held)

NextHydrate == DoNew \/ DoGet \/ DoSet \/ DoSubscribe \/ InitializeSync

SpecHydrate == InitHydrate /\ [][NextHydrate]_vars


(***************************************************************************)
(* Properties of hydration, under SpecHydrate.                             *)
(***************************************************************************)
\* the step is the call op on container c
StepOn(op, c) == last'.op = op /\ last'.c = c /\ ops' = ops + 1

\* c has been constructed and neither get() nor set() has been called on it
Unread(c) == master[c].live /\ ~master[c].hydrated

\* the call is the first get() or set() on c
FirstAccess(c) == Unread(c) /\ (StepOn("get", c) \/ StepOn("set", c))

\* what the registry caches under the key of c's handler
Cached(c) ==
  IF handler[c].key \in DOMAIN persistData
  THEN persistData[handler[c].key] ELSE Undef

C2_Counts ==
  \A c \in Containers :
    /\ probe[c].getItemCalls <= 1
    /\ master[c].hydrated <=> probe[c].getItemCalls = 1

C2_Steps ==
  \A c \in Containers :
    /\ master[c].hydrated => master'[c].hydrated
    /\ FirstAccess(c) => master'[c].hydrated /\ probe'[c].getItemCalls = 1
    /\ StepOn("subscribe", c) => master'[c].hydrated = master[c].hydrated
    /\ master[c].hydrated /\ StepOn("get", c) =>
         /\ last'.ret = master[c].currentValue
         /\ master'[c] = master[c]
         /\ probe'[c] = probe[c]

\* C2: handler.getItem() is invoked at most once per container, on the first
\* get() or set(); a container goes from Uninitialized to Hydrated once and
\* never back; every later get() returns the current value held in memory
\* and calls neither the handler nor the cache.
C2_OneShotHydration == []C2_Counts /\ [][C2_Steps]_vars

\* a second get() has returned the initial value although the cache by then
\* holds a record that a hydration would have merged
C2_Witness ==
  /\ last.op = "get" /\ last.c = 1
  /\ probe[1].getItemCalls = 1
  /\ probe[1].got = NotFound
  /\ handler[1].kind = "StorageHandler"
  /\ getItem(handler[1], persistData).ret = Obj([a |-> Num(1)])
  /\ last.ret = master[1].initialValue


\* the first get() on c, a container of the given type with a StorageHandler
\* whose getItem() returned something else than the not-found sentinel
FirstGetFinds(c, type) ==
  /\ Unread(c) /\ StepOn("get", c)
  /\ master[c].type = type
  /\ handler[c].kind = "StorageHandler"
  /\ probe'[c].got # NotFound

\* result is an object holding every property of second, and every property
\* of first that second lacks
IsSpreadOf(result, first, second) ==
  /\ result.t = "object"
  /\ DOMAIN result.f = DOMAIN Spread(first) \cup DOMAIN Spread(second)
  /\ \A k \in DOMAIN Spread(second) : result.f[k] = Spread(second)[k]
  /\ \A k \in DOMAIN Spread(first) \ DOMAIN Spread(second) :
       result.f[k] = Spread(first)[k]

\* result is what the merge function named fn makes of initial and stored
IsMergeOf(result, fn, initial, stored) ==
  IF fn = "shallowMerge" THEN IsSpreadOf(result, initial, stored)
  ELSE IsSpreadOf(result, stored, initial)

C3_Steps ==
  \A c \in Containers :
    FirstGetFinds(c, "AthrokStore") =>
      IsMergeOf(last'.ret, handler[c].config["merge"],
                master[c].initialValue, probe'[c].got)

\* C3: the first get() of a record-style container whose handler returns a
\* stored value returns merge(initial, stored) by the handler's configured
\* merge function; by the default shallow merge every property of the stored
\* value wins and every initial property the stored value lacks is kept.
C3_RecordHydration == [][C3_Steps]_vars

\* {a: 0, b: 2} and the stored {a: 1} have given {a: 1, b: 2}
C3_Witness ==
  /\ last.op = "get" /\ last.c = 1
  /\ master[1].type = "AthrokStore"
  /\ handler[1].kind = "StorageHandler"
  /\ handler[1].config["merge"] = "shallowMerge"
  /\ master[1].initialValue = AB
  /\ probe[1].got = Obj([a |-> Num(1)])
  /\ last.ret = Obj([a |-> Num(1), b |-> Num(2)])

C4_OriginalSteps ==
  \A c \in Containers :
    FirstGetFinds(c, "AthrokState") => last'.ret = probe'[c].got

\* C4 as stated: the first get() of a scalar-style container returns the
\* stored value outright whenever the handler returns one.
C4_Original == [][C4_OriginalSteps]_vars

C4_Steps ==
  \A c \in Containers :
    FirstGetFinds(c, "AthrokState") =>
      IF isObject(master[c].initialValue) /\ isObject(probe'[c].got)
      THEN IsMergeOf(last'.ret, handler[c].config["merge"],
                     master[c].initialValue, probe'[c].got)
      ELSE last'.ret = probe'[c].got

\* C4, amended: the first get() of a scalar-style container whose handler
\* returns a stored value returns the stored value outright unless both the
\* initial and the stored value are plain objects; then it returns
\* merge(initial, stored), as a record-style container does.
C4_ScalarHydration == [][C4_Steps]_vars

\* one container has replaced a number, or another has merged two objects
C4_Witness ==
  /\ last.op = "get" /\ last.c = 1
  /\ master[1].type = "AthrokState"
  /\ \/ /\ master[1].initialValue = Ten
        /\ probe[1].got = Num(20)
        /\ last.ret = Num(20)
     \/ /\ master[1].initialValue = AB
        /\ probe[1].got = Obj([a |-> Num(1)])
        /\ last.ret = Obj([a |-> Num(1), b |-> Num(2)])

C5_Steps ==
  \A c \in Containers :
    /\ Unread(c) /\ StepOn("set", c) /\ last'.arg.t = "function" =>
         LET hydrated == initializeValue(Machine(c), persistData)
         IN /\ last'.args = <<hydrated.mst.currentValue>>
            /\ last'.ret = Update(last'.arg.fn, hydrated.mst.currentValue)
            /\ probe'[c].getItemCalls = 1
            /\ probe'[c].got = hydrated.prb.got
            /\ master'[c].hydrated
    /\ master[c].hydrated /\ StepOn("set", c) =>
         /\ probe'[c].getItemCalls = probe[c].getItemCalls
         /\ last'.arg.t = "function" => last'.args = <<master[c].currentValue>>

\* C5: set() on a container that has never been read hydrates it before the
\* new value is computed: the update function receives the hydrated value,
\* not the bare initial value, and hydration does not run again afterwards.
C5_SetHydratesFirst == [][C5_Steps]_vars

\* the update function has received {a: 1, b: 2}, not the initial {a: 0, b: 2}
C5_Witness ==
  /\ last.op = "set" /\ last.c = 1
  /\ last.arg = Fn("bump")
  /\ master[1].initialValue = AB
  /\ probe[1].getItemCalls = 1
  /\ last.args = <<Obj([a |-> Num(1), b |-> Num(2)])>>
  /\ last.ret = Obj([a |-> Num(2), b |-> Num(2)])

C9_Steps ==
  \A c \in Containers :
    FirstAccess(c) /\ handler[c].kind = "StorageHandler"
      /\ Cached(c).t = "object" =>
      LET value == Prop(Cached(c), "value")
          version == Prop(Cached(c), "version")
          configured == Cfg(handler[c].config, "version")
      IN /\ version = configured =>
              probe'[c].got = value /\ probe'[c].migrateArgs = <<>>
         /\ version # configured /\ "migrate" \in DOMAIN handler[c].config =>
              /\ probe'[c].migrateArgs = <<value>>
              /\ probe'[c].got = Obj([a |-> Num(99)])
         /\ version # configured /\ "migrate" \notin DOMAIN handler[c].config =>
              probe'[c].got = NotFound /\ probe'[c].migrateArgs = <<>>
         /\ persistData' = persistData
         /\ ~last'.thrown

\* C9: getItem() on a cached record {value, version} returns record.value
\* when record.version equals config.version (both undefined included);
\* when they differ it calls migrate exactly once, with record.value, and
\* returns its result, or returns the not-found sentinel when no migrate is
\* configured; it never raises and never modifies the cache.
C9_VersionedRead == [][C9_Steps]_vars

\* migrate has been called once, with the value of a record of version 0
C9_Witness ==
  /\ last.c = 1 /\ last.op \in {"get", "set"}
  /\ Cfg(handler[1].config, "version") = Num(1)
  /\ Prop(Cached(1), "version") = Num(0)
  /\ probe[1].migrateArgs = <<Obj([a |-> Num(1)])>>
  /\ probe[1].got = Obj([a |-> Num(99)])

\* the container and the cache of scenario 3
Scenario3(c) ==
  /\ master[c].type = "AthrokStore"
  /\ master[c].initialValue = AB
  /\ handler[c].kind = "StorageHandler"
  /\ Cfg(handler[c].config, "version") = Num(1)
  /\ "migrate" \in DOMAIN handler[c].config
  /\ handler[c].config["merge"] = "shallowMerge"
  /\ Cached(c) = Obj([value |-> Obj([a |-> Num(1)]), version |-> Num(0)])

C10_OriginalSteps ==
  \A c \in Containers :
    Unread(c) /\ Scenario3(c) /\ StepOn("get", c) =>
      /\ last'.ret = Obj([a |-> Num(99)])
      /\ probe'[c].migrateArgs = <<Obj([a |-> Num(1)])>>

\* C10 as stated: with initial {a: 0, b: 2}, version 1, the cached record
\* {value: {a: 1}, version: 0} and a migrate returning {a: 99}, the first
\* get() returns {a: 99} and migrate is called once, with {a: 1}.
C10_Original == [][C10_OriginalSteps]_vars

C10_Steps ==
  \A c \in Containers :
    Unread(c) /\ Scenario3(c) /\ StepOn("get", c) =>
      /\ last'.ret = Obj([a |-> Num(99), b |-> Num(2)])
      /\ probe'[c].migrateArgs = <<Obj([a |-> Num(1)])>>

\* C10, amended: in that scenario the first get() returns {a: 99, b: 2}, the
\* migrated value merged over the initial value, and migrate is called
\* exactly once, with {a: 1}.
C10_MigratedThenMerged == [][C10_Steps]_vars

\* the first get() of scenario 3 has returned
C10_Witness ==
  /\ last.op = "get" /\ last.c = 1
  /\ Scenario3(1)
  /\ probe[1].getItemCalls = 1
  /\ probe[1].got = Obj([a |-> Num(99)])
  /\ last.ret = Obj([a |-> Num(99), b |-> Num(2)])


\* what the cache holds under c's key gives the handler nothing to return:
\* no entry, an entry that is no {value, version} record, or a record of
\* another version with no migrate configured
Degenerate(c) ==
  \/ Cached(c).t # "object"
  \/ "value" \notin DOMAIN Cached(c).f
  \/ /\ Prop(Cached(c), "version") # Cfg(handler[c].config, "version")
     /\ "migrate" \notin DOMAIN handler[c].config

C11_OriginalSteps ==
  \A c \in Containers :
    FirstAccess(c) /\ handler[c].kind = "StorageHandler" /\ Degenerate(c) =>
      /\ ~last'.thrown
      /\ StepOn("get", c) => last'.ret = master[c].initialValue
      /\ StepOn("set", c) /\ last'.arg.t = "function" =>
           last'.args = <<master[c].initialValue>>

\* C11: whatever the cache holds under the container's key (no entry, an
\* entry that is no well-formed {value, version} record, an object without
\* a value field included, or a version mismatch with no migrate), get() and
\* set() complete without raising and the hydrated value equals the
\* container's initial value.
C11_Original == [][C11_OriginalSteps]_vars



\* the configuration asks for no persistence: no name, or persist.enable
\* not set
Unpersisted(config) ==
  \/ "name" \notin DOMAIN config
  \/ "persist" \notin DOMAIN config
  \/ ~config["persist"]["enable"]

C23_Steps ==
  \A c \in Containers :
    \* constructed with the uninitialized handler, no key registered
    /\ StepOn("new", c) /\ Unpersisted(last'.arg) =>
         /\ handler'[c] = UninitializedStorageHandler
         /\ persistenceKeys' = persistenceKeys
         /\ backendLog' = backendLog
    /\ master[c].live /\ handler[c] = UninitializedStorageHandler =>
         \* the handler is kept
         /\ handler'[c] = handler[c]
         \* no call on the container reaches the registry, a timer or a
         \* backend
         /\ StepOn("get", c) \/ StepOn("set", c) \/ StepOn("subscribe", c) =>
              /\ persistenceKeys' = persistenceKeys
              /\ timers' = timers
              /\ backendLog' = backendLog
              /\ backend' = backend
         \* the first get() gives the initial value
         /\ Unread(c) /\ StepOn("get", c) =>
              /\ last'.ret = master[c].initialValue
              /\ probe'[c].got = NotFound

\* C23: a container constructed without a name or without persist.enable
\* uses the uninitialized handler: under any sequence of get(), set() and
\* subscribe() it never adds a key to persistenceKeys, never schedules a
\* timer and never causes a backend call, and its first get() returns the
\* initial value whatever persistData contains.
C23_UninitializedHandler == [][C23_Steps]_vars

\* the first get() of a container named s without persistence has returned
\* the initial value although the cache holds a record under the key of s
C23_Witness ==
  /\ last.op = "get" /\ last.c = 1
  /\ handler[1] = UninitializedStorageHandler
  /\ probe[1].getItemCalls = 1
  /\ StoreKey \in DOMAIN persistData
  /\ isObject(persistData[StoreKey])
  /\ last.ret = master[1].initialValue
  /\ persistenceKeys = <<StoreKey>>
  /\ timers = {}


C27_Steps ==
  \A c \in Containers :
    StepOn("new", c) =>
      IF last'.ret = Str("AthrokMaster")
      THEN \* the construction raises and has done nothing
           /\ last'.thrown
           /\ master'[c] = master[c] /\ ~master'[c].live
           /\ handler'[c] = handler[c]
           /\ persistenceKeys' = persistenceKeys
           /\ backendLog' = backendLog
           /\ backend' = backend
      ELSE \* a specialised container is constructed
           /\ last'.ret \in {Str("AthrokStore"), Str("AthrokState")}
           /\ ~last'.thrown
           /\ master'[c].live
           /\ master'[c].type = last'.ret.s

\* the containers that exist are specialised ones
C27_State ==
  \A c \in Containers :
    master[c].live => master[c].type \in {"AthrokStore", "AthrokState"}

\* C27: constructing the abstract base container directly fails at
\* construction time with an error, and the failed construction leaves the
\* registry unchanged (no key registered, no backend call); constructing a
\* specialised container (record-style or scalar-style) never raises this
\* error.
C27_AbstractBase == []C27_State /\ [][C27_Steps]_vars

\* with a backend installed, the base was constructed with a persistent
\* configuration: it raised, no key is registered and the backend has seen
\* the calls of initialize only
C27_Witness ==
  /\ last.op = "new" /\ last.thrown
  /\ last.ret = Str("AthrokMaster")
  /\ last.arg = [name |-> StoreName, persist |-> [enable |-> TRUE]]
  /\ storage = "sync"
  /\ persistenceKeys = <<>>
  /\ Len(backendLog) = 2
  /\ ~master[1].live

(***************************************************************************)
(* Listeners, under SpecListen: one container, two listener functions,     *)
(* each of which does nothing, invokes a disposer, calls set() or raises.  *)
(***************************************************************************)
Five == Obj([a |-> Num(5)])
Seven == Obj([a |-> Num(7)])

ListenerKinds ==
  {Plain, Throwing, Setting(Seven)} \cup {Disposing(l) : l \in {1, 2}}

\* at most one listener calls set(), so that no round starts another forever
ListenBehaviours ==
  {b \in [Listeners -> ListenerKinds] :
     /\ b[3] = Plain
     /\ Cardinality({l \in Listeners : b[l].kind = "set"}) <= 1}

ListenWorld ==
  [maxOps |-> MaxOpsListen, maxInits |-> 1, steps |-> {}, containers |-> {1},
   listeners |-> {1, 2},
   news |-> {[type |-> "AthrokStore", initialValue |-> AB,
              config |-> [name |-> StoreName,
                          persist |-> [enable |-> TRUE]]]},
   updates |-> {Fn("bump"), Five}]

InitListen ==
  \E b \in ListenBehaviours :
    InitWith(ListenWorld, b, [k \in {} |-> Undef])

NextListen == DoNew \/ DoGet \/ DoSet \/ DoSubscribe \/ DoDispose

SpecListen == InitListen /\ [][NextListen]_vars

\* the listener calls that the set() call itself (not one nested in it) made
Round(trace) ==
  SelectSeq(trace, LAMBDA e : e.e = "listener" /\ e.depth = 0)

\* during the call no listener raised, invoked a disposer or called set()
Undisturbed(trace) ==
  \A i \in DOMAIN trace :
    /\ trace[i].e \in {"set", "listener", "setItem"}
    /\ trace[i].depth = 0

\* the new value the set() call computed
Computed(call) ==
  IF call.arg.t = "function" THEN Update(call.arg.fn, call.args[1])
  ELSE call.arg

\* the round of the call went through subscribed, in order, with the new value
NotifiedAll(call, subscribed) ==
  /\ [i \in DOMAIN Round(call.trace) |-> Round(call.trace)[i].l] = subscribed
  /\ \A i \in DOMAIN Round(call.trace) :
       Round(call.trace)[i].v = Computed(call)

C6_OriginalSteps ==
  \A c \in Containers :
    StepOn("set", c) => NotifiedAll(last', master[c].listeners)

C6_Steps ==
  \A c \in Containers :
    StepOn("set", c) /\ Undisturbed(last'.trace) =>
      NotifiedAll(last', master[c].listeners)

C7_Steps ==
  \A c \in Containers :
    StepOn("set", c) =>
      /\ \A i \in DOMAIN last'.trace :
           last'.trace[i].e = "listener" =>
             last'.trace[i].l \notin probe[c].disposed
      /\ \A i, j, k \in DOMAIN last'.trace :
           /\ i < j /\ j < k
           /\ last'.trace[i].e = "dispose"
           /\ last'.trace[j].e = "set"
           => ~ /\ last'.trace[k].e = "listener"
                /\ last'.trace[k].l = last'.trace[i].l

\* C7: once the disposer that subscribe(listener) returned has been invoked,
\* no later set() call invokes that listener, until it is subscribed again.
C7_DisposedIsSilent == [][C7_Steps]_vars

\* a set() has notified the listener that is left and not the disposed one
C7_Witness ==
  /\ last.op = "set" /\ last.c = 1
  /\ probe[1].disposed = {1}
  /\ \E i \in DOMAIN disposers : disposers[i].l = 1 /\ disposers[i].invoked
  /\ [i \in DOMAIN Round(last.trace) |-> Round(last.trace)[i].l] = <<2>>

\* the step invokes the disposer of the i-th subscription
Disposes(i) ==
  /\ i \in DOMAIN disposers
  /\ StepOn("dispose", disposers[i].c)
  /\ last'.arg = Num(i)

\* subscription j is in place: its listener is in the container's set
InPlace(j, mst) == disposers[j].l \in Range(mst[disposers[j].c].listeners)

C8_OriginalSteps ==
  \A i, j \in DOMAIN disposers :
    Disposes(i) /\ j # i /\ InPlace(j, master) => InPlace(j, master')

\* C8 as stated: of any two subscribe() calls on one container, also two
\* that pass the same listener function, the disposer of one leaves the
\* other subscription in place.
C8_Original == [][C8_OriginalSteps]_vars

C8_Steps ==
  /\ \A i, j \in DOMAIN disposers :
       Disposes(i) /\ j # i /\ disposers[j].l # disposers[i].l
         /\ InPlace(j, master) => InPlace(j, master')
  /\ \A i \in DOMAIN disposers :
       Disposes(i) =>
         master'[disposers[i].c].listeners =
           SelectSeq(master[disposers[i].c].listeners,
                     LAMBDA l : l # disposers[i].l)

\* C8, amended: of any two subscribe() calls on one container that pass
\* different listener functions, the disposer of one leaves the other
\* subscription in place, at its position, so that it still receives every
\* later notification; two calls that pass the same function make one
\* subscription, which either disposer removes.
C8_IndependentSubscriptions == [][C8_Steps]_vars

\* listener 1 has been disposed of and listener 2 is still subscribed
C8_Witness ==
  /\ last.op = "dispose" /\ last.c = 1 /\ last.l = 1
  /\ Len(disposers) = 2
  /\ master[1].listeners = <<2>>



\* the listeners the round of the call has notified, in order
Notified(call) == [i \in DOMAIN Round(call.trace) |-> Round(call.trace)[i].l]

\* seq goes through members of whole, each once, in the order of whole
InOrderOf(seq, whole) ==
  \A i, j \in DOMAIN seq :
    i < j => \E p, q \in DOMAIN whole :
               p < q /\ whole[p] = seq[i] /\ whole[q] = seq[j]

\* event i of the call is a listener invoking the disposer of a subscribed
\* listener that the round has not reached yet
DisposedAhead(call, subscribed, i) ==
  /\ call.trace[i].e = "dispose"
  /\ call.trace[i].l \in Range(subscribed)
  /\ \A k \in 1..(i - 1) :
       ~(call.trace[k].e = "listener" /\ call.trace[k].l = call.trace[i].l)

\* listener l is invoked after event i of the call
NotifiedAfter(call, l, i) ==
  \E j \in DOMAIN call.trace :
    j > i /\ call.trace[j].e = "listener" /\ call.trace[j].l = l

C31_OriginalSteps ==
  \A c \in Containers :
    StepOn("set", c) =>
      /\ InOrderOf(Notified(last'), master[c].listeners)
      /\ \A i \in DOMAIN last'.trace :
           DisposedAhead(last', master[c].listeners, i) =>
             NotifiedAfter(last', last'.trace[i].l, i)

\* C31 as stated: listeners are notified in subscription order, and a
\* listener whose disposer is invoked by an earlier listener during a
\* notification round is still notified in that round.
C31_Original == [][C31_OriginalSteps]_vars

C31_Steps ==
  \A c \in Containers :
    StepOn("set", c) =>
      /\ InOrderOf(Notified(last'), master[c].listeners)
      /\ \A i \in DOMAIN last'.trace :
           /\ DisposedAhead(last', master[c].listeners, i) =>
                ~NotifiedAfter(last', last'.trace[i].l, i)
           \* a disposer invoked later in the round comes after the
           \* notification
           /\ last'.trace[i].e = "dispose"
                /\ last'.trace[i].l \in Range(master[c].listeners)
                /\ ~DisposedAhead(last', master[c].listeners, i) =>
                \E k \in 1..(i - 1) :
                  /\ last'.trace[k].e = "listener"
                  /\ last'.trace[k].l = last'.trace[i].l

\* C31, amended: listeners are notified in subscription order, and a
\* listener whose disposer is invoked by an earlier listener during a
\* notification round is not notified in that round (nor from the next
\* set() on); only a listener whose disposer is invoked after its own turn,
\* by itself or by a later listener, has been notified in that round.
C31_OrderAndRemoval == [][C31_Steps]_vars

\* listeners 1 and 2 were subscribed in that order; in the round of the
\* set() listener 1 invoked the disposer of listener 2, which was not
\* notified
C31_Witness ==
  /\ last.op = "set" /\ last.c = 1
  /\ ops = 4
  /\ behaviour[1] = Disposing(2)
  /\ Len(disposers) = 2
  /\ disposers[1].l = 1 /\ disposers[2].l = 2
  /\ Notified(last) = <<1>>
  /\ master[1].listeners = <<1>>

(***************************************************************************)
(* Debounced writes, under SpecDebounce: one persistent container, a       *)
(* synchronous backend, and a clock.                                       *)
(***************************************************************************)
DebounceConfigs ==
  {[enable |-> TRUE, version |-> Num(1)] @@ d @@ pt :
     d \in {EmptyProps, [debounceTime |-> 30]},
     pt \in {EmptyProps, [partial |-> "pickA"]}}

DebounceWorld ==
  [maxOps |-> MaxOpsDebounce, maxInits |-> 1, steps |-> {50, MaxTime}, containers |-> {1},
   listeners |-> {},
   news |-> {[type |-> "AthrokStore", initialValue |-> AB,
              config |-> [name |-> StoreName, persist |-> p]] :
               p \in DebounceConfigs},
   updates |-> {Fn("bump"), Five}]

InitDebounce ==
  InitWith(DebounceWorld, [l \in Listeners |-> Plain], [k \in {} |-> Undef])

NextDebounce == DoNew \/ DoSet \/ InitializeSync \/ DoFire \/ DoTick

SpecDebounce == InitDebounce /\ [][NextDebounce]_vars

\* the scheduled writes of c's handler that have not fired
Pending(c, tms) == {tm \in tms : tm.c = c}

\* the backend setItem calls made for key, in order
Writes(log, key) ==
  SelectSeq(log, LAMBDA call : call.op = "setItem" /\ call.key = key)

\* the text of the record {value: partial(data), version: config.version}
Payload(h, data) ==
  Json(Obj([value |-> IF h.config["partial"] = "pickA"
                      THEN Obj([a |-> data.f["a"]]) ELSE data,
            version |-> h.config["version"]]))

C1_Steps ==
  \A c \in Containers :
    handler[c].kind = "StorageHandler" =>
      /\ Cardinality(Pending(c, timers)) <= 1
      /\ IF StepOn("set", c)
         THEN \* each call replaces the pending write by one of its own
              /\ Writes(backendLog', handler[c].key)
                   = Writes(backendLog, handler[c].key)
              /\ \E tm \in timers' :
                   /\ Pending(c, timers') = {tm}
                   /\ tm \notin timers
                   /\ tm.data = last'.ret
                   /\ tm.due = now + handler[c].config["debounceTime"]
         ELSE IF StepOn("fire", c)
         THEN \* the one pending write is made, when it is due
              /\ \E tm \in timers :
                   /\ Pending(c, timers) = {tm}
                   /\ now = tm.due
                   /\ storage # UninitializedStorage =>
                        Writes(backendLog', handler[c].key)
                          = Append(Writes(backendLog, handler[c].key),
                                   [op |-> "setItem", key |-> handler[c].key,
                                    value |-> Payload(handler[c], tm.data)])
              /\ Pending(c, timers') = {}
         ELSE \* nothing else writes under the key or touches the timer,
              \* and time does not pass a write that is due
              /\ Writes(backendLog', handler[c].key)
                   = Writes(backendLog, handler[c].key)
              /\ Pending(c, timers') = Pending(c, timers)
              /\ \A tm \in Pending(c, timers') : now' <= tm.due

\* C1: N >= 1 setItem calls on one handler, each made before the timer of
\* the one before has fired, lead to exactly one backend setItem call for
\* the handler's key, made debounceTime after the last of them, with a
\* payload derived from the value of the last call.
C1_DebounceCoalescing == [][C1_Steps]_vars

\* two calls, the second some time after the first, and the one write that
\* followed: made debounceTime after the second call, holding its value
C1_Witness ==
  /\ last.op = "fire" /\ last.c = 1
  /\ handler[1].timeoutId = 2
  /\ nextTimerId = 3
  /\ now = 50 + handler[1].config["debounceTime"]
  /\ last.arg = master[1].currentValue
  /\ Len(Writes(backendLog, handler[1].key)) = 1
  /\ Writes(backendLog, handler[1].key)[1].value
       = Payload(handler[1], master[1].currentValue)


(***************************************************************************)
(* The registry, under SpecRegistry: keys registered and cleared, handlers *)
(* constructed, and initialize called (twice at most) with a synchronous   *)
(* or an asynchronous backend that already holds a config record and       *)
(* records, well-formed or not.                                            *)
(***************************************************************************)
SecondKey == ATHROK_KEY_LABEL \o "t"
\* a key that does not carry the prefix
PlainKey == "plain"

StoredRecord == Obj([value |-> Obj([a |-> Num(1)]), version |-> Num(1)])

\* what the backend may hold under the config key: nothing, a key list, a
\* record without keys, and texts that are no config record
ConfigTexts ==
  {Null, ConfigText(<<StoreKey>>), ConfigText(<<SecondKey, PlainKey>>),
   JSONstringify(Obj(EmptyProps)), Malformed, JSONstringify(Null),
   JSONstringify(Obj([keys |-> Num(5)]))}

\* the backend made of a config text and of the texts under three keys
Held(config, first, second, plain) ==
  LET texts == [k \in {ATHROK_CONFIG_LABEL, StoreKey, SecondKey, PlainKey} |->
                  CASE k = ATHROK_CONFIG_LABEL -> config
                    [] k = StoreKey -> first
                    [] k = SecondKey -> second
                    [] OTHER -> plain]
  IN [k \in {k \in DOMAIN texts : texts[k] # Null} |-> texts[k]]

RegistryBackends ==
  {Held(config, first, second, JSONstringify(StoredRecord)) :
     config \in ConfigTexts,
     first \in {Null, JSONstringify(StoredRecord), Malformed},
     second \in {Null, JSONstringify(StoredRecord)}}

RegistryWorld ==
  [maxOps |-> MaxOpsRegistry, maxInits |-> MaxInits, steps |-> {},
   containers |-> {1, 2}, listeners |-> {},
   news |-> {[type |-> "AthrokStore", initialValue |-> AB,
              config |-> [name |-> StoreName,
                          persist |-> [enable |-> TRUE, version |-> Num(1)]]]},
   updates |-> {},
   keys |-> {StoreKey, SecondKey}]

InitRegistry ==
  \E held \in RegistryBackends :
    InitWith(RegistryWorld, [l \in Listeners |-> Plain], held)

NextRegistry ==
  \/ DoNew
  \/ DoSetPersistenceKey
  \/ DoClearPersistence
  \/ InitializeSync
  \/ InitializeAsync
  \/ DoResolveConfig
  \/ DoResolveKey

SpecRegistry == InitRegistry /\ [][NextRegistry]_vars


(***************************************************************************)
(* Properties of the registry, under SpecRegistry.                         *)
(***************************************************************************)
\* the step is the registry call op
RegistryStep(op) == last'.op = op /\ ops' = ops + 1

\* the backend calls the step has made, in order
Calls == SubSeq(backendLog', Len(backendLog) + 1, Len(backendLog'))

RemoveCall(key) == [op |-> "removeItem", key |-> key, value |-> Undef]
ReadCall(key) == [op |-> "getItem", key |-> key, value |-> Undef]
\* the write of the config record that lists keys
ConfigWrite(keys) ==
  [op |-> "setItem", key |-> ATHROK_CONFIG_LABEL, value |-> ConfigText(keys)]

Installed == storage # UninitializedStorage

C12_Steps ==
  RegistryStep("clearPersistence")
    /\ last'.arg.s \in Range(persistenceKeys) =>
      LET key == last'.arg.s
          others == SelectSeq(persistenceKeys, LAMBDA k : k # key)
      IN /\ key \notin Range(persistenceKeys')
         /\ persistenceKeys' = others
         /\ IF Installed
            THEN /\ Calls = <<RemoveCall(key), ConfigWrite(others)>>
                 /\ key \notin DOMAIN backend'
                 /\ backend'[ATHROK_CONFIG_LABEL] = ConfigText(others)
            ELSE Calls = <<>> /\ backend' = backend

\* C12: clearPersistence(key) on a registered key leaves key out of
\* persistenceKeys, has called removeItem(key) on the backend exactly once,
\* and the config record it has written lists the key set without key; all
\* other registered keys stay in the set, in their order, and in the record.
\* (While no backend is installed there is none to call or to write to.)
C12_ClearPersistence == [][C12_Steps]_vars

\* of two registered keys the first has been cleared on an installed backend
C12_Witness ==
  /\ last.op = "clearPersistence" /\ last.arg = Str(StoreKey)
  /\ Installed
  /\ persistenceKeys = <<SecondKey>>
  /\ StoreKey \notin DOMAIN backend
  /\ backend[ATHROK_CONFIG_LABEL] = ConfigText(<<SecondKey>>)
  /\ backendLog[Len(backendLog) - 1] = RemoveCall(StoreKey)

\* the backend has received a write of the config record
ConfigWritten ==
  \E i \in DOMAIN backendLog :
    backendLog[i].op = "setItem" /\ backendLog[i].key = ATHROK_CONFIG_LABEL

\* the config record in the backend lists exactly the registered keys
Mirror(held, keys) ==
  /\ ATHROK_CONFIG_LABEL \in DOMAIN held
  /\ held[ATHROK_CONFIG_LABEL] = ConfigText(keys)

C13_State == Installed /\ ConfigWritten => Mirror(backend, persistenceKeys)

C13_Steps ==
  /\ storage' # UninitializedStorage
  /\ \/ RegistryStep("setPersistenceKey")
     \/ RegistryStep("clearPersistence")
     \/ RegistryStep("new") /\ handler'[last'.c].kind = "StorageHandler"
  => /\ Mirror(backend', persistenceKeys')
     /\ Calls[Len(Calls)] = ConfigWrite(persistenceKeys')

\* C13: with a backend installed, every completed setPersistenceKey,
\* clearPersistence and handler construction has rewritten the whole config
\* record, which lists exactly the members of persistenceKeys; and from the
\* first such write on (the re-write of initialize included) the record in
\* the backend mirrors persistenceKeys in every state.
C13_ConfigMirror == []C13_State /\ [][C13_Steps]_vars

\* initialize has merged the listed key, and a handler constructed afterwards
\* has added its own: the record lists both
C13_Witness ==
  /\ last.op = "new"
  /\ Installed
  /\ isPersistDataRestored
  /\ persistenceKeys = <<SecondKey, PlainKey, StoreKey>>
  /\ backend[ATHROK_CONFIG_LABEL] = ConfigText(<<SecondKey, PlainKey, StoreKey>>)


\* the step runs the config-read step of an initialize call: the whole call
\* for a synchronous backend, the resumption after the config read for an
\* asynchronous one
ConfigStep == RegistryStep("initialize") \/ RegistryStep("resolveConfig")

\* the keys a config text lists: none when there is no record, when the
\* record has no key list and when the text is no config record
Listed(text) ==
  IF text.t = "json" /\ Prop(text.d, "keys").t = "array"
  THEN [i \in DOMAIN text.d.f["keys"].s |-> text.d.f["keys"].s[i].s]
  ELSE <<>>

\* the reads of the records of keys, in order
ReadCalls(keys) == [i \in DOMAIN keys |-> ReadCall(keys[i])]

\* the calls of the step that follow the config read
AfterConfigRead ==
  IF last'.op = "initialize" THEN Tail(Calls) ELSE Calls

\* the keys that were registered when the call of the step was made
BeforeCall ==
  IF last'.op = "initialize" THEN Range(persistenceKeys)
  ELSE UNION {Range(call.before) :
                call \in {c \in pending.open : c.id = last'.c}}

C14_OriginalSteps ==
  ConfigStep =>
    /\ Range(persistenceKeys') = BeforeCall \cup Range(Listed(last'.arg))
    /\ ~last'.thrown =>
         AfterConfigRead =
           <<ConfigWrite(persistenceKeys')>>
             \o ReadCalls(prefixed(persistenceKeys'))

\* C14 as stated: after the config-read step persistenceKeys equals the keys
\* registered in memory before the call together with the keys the config
\* record lists, and exactly this union is written back before any per-key
\* record is read.
C14_Original == [][C14_OriginalSteps]_vars

C14_Steps ==
  ConfigStep =>
    /\ Range(persistenceKeys') =
         Range(persistenceKeys) \cup Range(Listed(last'.arg))
    /\ SubSeq(persistenceKeys', 1, Len(persistenceKeys)) = persistenceKeys
    /\ last'.op = "initialize" => Head(Calls) = ReadCall(ATHROK_CONFIG_LABEL)
    /\ IF last'.thrown
       THEN AfterConfigRead = <<>>
       ELSE AfterConfigRead =
              <<ConfigWrite(persistenceKeys')>>
                \o ReadCalls(prefixed(persistenceKeys'))

\* C14, amended: the config-read step of initialize leaves in
\* persistenceKeys the keys that are registered in memory when the config
\* read completes, in their order, followed by the keys the backend's
\* config record lists (none when the record is absent), dropping none, and
\* writes exactly this union back to the config record before it reads any
\* per-key record; a step that raises on a text that is no config record
\* changes no key, writes nothing and reads no per-key record.
C14_InitializeUnion == [][C14_Steps]_vars

\* a key registered in memory and two listed keys: the union has been
\* written back and then the records of the two prefixed keys were read
C14_Witness ==
  /\ last.op \in {"initialize", "resolveConfig"}
  /\ Listed(last.arg) = <<SecondKey, PlainKey>>
  /\ persistenceKeys = <<StoreKey, SecondKey, PlainKey>>
  /\ Len(backendLog) >= 3
  /\ SubSeq(backendLog, Len(backendLog) - 2, Len(backendLog)) =
       <<ConfigWrite(<<StoreKey, SecondKey, PlainKey>>),
         ReadCall(StoreKey), ReadCall(SecondKey)>>


\* text decodes to a record
Decodes(text) == text.t = "json"

\* key has the same cache entry, or the same lack of one, after the step
SameEntry(key) ==
  /\ key \in DOMAIN persistData' <=> key \in DOMAIN persistData
  /\ key \in DOMAIN persistData => persistData'[key] = persistData[key]

\* held has, under each of keys, either nothing, or a text that does not
\* decode, or the record that the cache has under the key
Restored(keys, held, cache) ==
  \A key \in keys :
    key \in DOMAIN held /\ Decodes(held[key]) =>
      key \in DOMAIN cache /\ cache[key] = JSONparse(held[key])

\* the step ends the suspended call, and no callback of it has raised
Completes(call) ==
  /\ call.id = last'.c
  /\ \A other \in pending'.open : other.id # call.id
  /\ ~call.rejected /\ ~last'.thrown

\* the step ends an initialize call that has not raised
Ends ==
  \/ RegistryStep("initialize") /\ ~last'.thrown
  \/ /\ RegistryStep("resolveConfig") \/ RegistryStep("resolveKey")
     /\ \E call \in pending.open : Completes(call)

C15_OriginalSteps ==
  Ends =>
    /\ Restored(Range(prefixed(persistenceKeys')), backend', persistData')
    /\ \A key \in Range(persistenceKeys') :
         key \notin DOMAIN backend' => key \notin DOMAIN persistData'

\* C15 as stated: when initialize completes, persistData holds the decoded
\* record under every prefixed key of persistenceKeys for which the backend
\* holds a record, and no entry under a key with no backend record.
C15_Original == [][C15_OriginalSteps]_vars

C15_Steps ==
  /\ RegistryStep("initialize") /\ ~last'.thrown =>
       /\ isPersistDataRestored'
       /\ Restored(Range(prefixed(persistenceKeys')), backend', persistData')
       /\ \A key \in Range(persistenceKeys') :
            key \notin DOMAIN backend => SameEntry(key)
       /\ \A key \in DOMAIN persistData' \ Range(persistenceKeys') :
            SameEntry(key)
  /\ RegistryStep("resolveConfig") => persistData' = persistData
  /\ RegistryStep("resolveKey") =>
       /\ \A key \in (DOMAIN persistData \cup DOMAIN persistData')
                       \ {last'.ret.s} : SameEntry(key)
       /\ IF Decodes(last'.arg)
          THEN persistData'[last'.ret.s] = JSONparse(last'.arg)
          ELSE SameEntry(last'.ret.s)
       /\ \A call \in pending.open :
            Completes(call) =>
              /\ isPersistDataRestored'
              /\ Restored(Range(call.keys), backend', persistData')

\* C15, amended: when initialize completes, persistData holds the decoded
\* record under every prefixed key that was in persistenceKeys when the pass
\* issued its per-key reads (right after the config union) and for which
\* the backend holds a record, for the keys that came from the config
\* record and for those registered in memory before alike; a read that
\* finds no record creates no cache entry (and removes none), and a key
\* registered after the reads were issued is not read by the pass.
C15_RecordsCached == [][C15_Steps]_vars

\* an asynchronous pass has ended: the record of the key registered in
\* memory and that of the key the config listed are cached, the key without
\* the prefix is not
C15_Witness ==
  /\ last.op = "resolveKey"
  /\ isPersistDataRestored
  /\ pending.open = {}
  /\ persistenceKeys = <<StoreKey, SecondKey, PlainKey>>
  /\ DOMAIN persistData = {StoreKey, SecondKey}
  /\ persistData[StoreKey] = StoredRecord
  /\ persistData[SecondKey] = StoredRecord
  /\ PlainKey \in DOMAIN backend


\* the suspended call that the step resumes or starts, as it is afterwards
OpenAfter(id) == {call \in pending'.open : call.id = id}

C16_OriginalState ==
  (\E call \in pending.open : call.stage = "keys") => ~isPersistDataRestored

\* C16 as stated (its last part): isPersistDataRestored is false in every
\* state in which a per-key read of an initialize pass is outstanding.
C16_Original == []C16_OriginalState

C16_State ==
  pending.open # {} /\ isPersistDataRestored =>
    pending.calls > Cardinality(pending.open)

C16_Steps ==
  \* the backend is installed, then the config is read
  /\ RegistryStep("initializeAsync") =>
       /\ storage' = "async"
       /\ Calls = <<ReadCall(ATHROK_CONFIG_LABEL)>>
       /\ \E call \in OpenAfter(last'.c) : call.stage = "config"
       /\ isPersistDataRestored' = isPersistDataRestored
  /\ RegistryStep("initialize") =>
       /\ storage' = "sync"
       /\ Head(Calls) = ReadCall(ATHROK_CONFIG_LABEL)
       /\ ~last'.thrown =>
            Tail(Calls) = <<ConfigWrite(persistenceKeys')>>
                            \o ReadCalls(prefixed(persistenceKeys'))
  \* the config read has resolved: the re-write, then the per-key reads
  /\ RegistryStep("resolveConfig") /\ ~last'.thrown =>
       /\ Calls = <<ConfigWrite(persistenceKeys')>>
                    \o ReadCalls(prefixed(persistenceKeys'))
       /\ \A call \in OpenAfter(last'.c) :
            /\ call.stage = "keys"
            /\ DOMAIN call.reads = Range(prefixed(persistenceKeys'))
  \* a per-key read resolves: nothing more is issued
  /\ RegistryStep("resolveKey") => Calls = <<>>
  \* the flag is set by a step of an initialize call that leaves no read of
  \* that call outstanding, and by nothing else
  /\ isPersistDataRestored' # isPersistDataRestored =>
       /\ isPersistDataRestored'
       /\ last'.op \in {"initialize", "resolveConfig", "resolveKey"}
       /\ OpenAfter(last'.c) = {}

\* C16, amended: inside one initialize call the backend is installed first,
\* then the config read completes, then the config re-write is issued, then
\* the per-key reads; the call sets isPersistDataRestored only once every
\* per-key read of the pass has resolved, and as long as a read of the pass
\* is outstanding the flag is false unless another initialize call has
\* ended before.
C16_InitializeOrder == []C16_State /\ [][C16_Steps]_vars

\* an asynchronous pass with one record cached and one read outstanding:
\* the flag is still false
C16_Witness ==
  /\ last.op = "resolveKey"
  /\ ~isPersistDataRestored
  /\ DOMAIN persistData = {StoreKey}
  /\ \E call \in pending.open :
       call.stage = "keys" /\ DOMAIN call.reads = {SecondKey}



C19_OriginalSteps ==
  RegistryStep("initialize") =>
    \* nothing of the call is left for later
    /\ OpenAfter(last'.c) = {}
    \* the config read, the re-write and the per-key reads have been made
    /\ Calls = <<ReadCall(ATHROK_CONFIG_LABEL), ConfigWrite(persistenceKeys')>>
                 \o ReadCalls(prefixed(persistenceKeys'))
    \* the cache is populated and the flag is set
    /\ Restored(Range(prefixed(persistenceKeys')), backend', persistData')
    /\ isPersistDataRestored'

\* C19 as stated: with a synchronous backend initialize is one uninterrupted
\* step; the config read, the config re-write, all per-key reads, the
\* population of the cache and isPersistDataRestored = true have all taken
\* effect when the call returns to its caller.
C19_Original == [][C19_OriginalSteps]_vars


\* text is no config record: nothing, a text that does not decode, or the
\* text of something that is no object with a list of keys
NoConfigRecord(text) ==
  \/ ~Truthy(text)
  \/ ~Decodes(text)
  \/ JSONparse(text).t # "object"
  \/ Prop(JSONparse(text), "keys").t # "array"

C20_OriginalSteps ==
  /\ RegistryStep("initialize") /\ NoConfigRecord(last'.arg) =>
       /\ ~last'.thrown
       /\ persistenceKeys' = persistenceKeys
       /\ isPersistDataRestored'
  /\ RegistryStep("resolveConfig") /\ NoConfigRecord(last'.arg) =>
       /\ ~last'.thrown
       /\ persistenceKeys' = persistenceKeys
       /\ OpenAfter(last'.c) = {} => isPersistDataRestored'

\* C20 as stated: malformed or missing registry-config data read during
\* initialize is treated as an empty key list and is never an error:
\* initialize completes, persistenceKeys keeps exactly the keys registered
\* in memory, and isPersistDataRestored becomes true.
C20_Original == [][C20_OriginalSteps]_vars


\* how many times key occurs in keys
Occurrences(keys, key) == Cardinality({i \in DOMAIN keys : keys[i] = key})

\* the step registers key: setPersistenceKey(key), or the construction of a
\* handler whose key it is
Registers(key) ==
  \/ RegistryStep("setPersistenceKey") /\ last'.arg = Str(key)
  \/ \E c \in Containers :
       /\ StepOn("new", c)
       /\ handler'[c].kind = "StorageHandler"
       /\ handler'[c].key = key

C28_State ==
  \* no key is registered twice
  /\ \A key \in Range(persistenceKeys) : Occurrences(persistenceKeys, key) = 1
  \* and no config record that was written lists a key twice
  /\ \A i \in DOMAIN backendLog :
       backendLog[i].op = "setItem" /\ backendLog[i].key = ATHROK_CONFIG_LABEL =>
         \A key \in Range(Listed(backendLog[i].value)) :
           Occurrences(Listed(backendLog[i].value), key) = 1

C28_Steps ==
  \A key \in Range(persistenceKeys) :
    Registers(key) =>
      /\ persistenceKeys' = persistenceKeys
      /\ Installed =>
           /\ Calls = <<ConfigWrite(persistenceKeys)>>
           /\ Occurrences(Listed(backend'[ATHROK_CONFIG_LABEL]), key) = 1

\* C28: registering a key is idempotent: setPersistenceKey(key), or the
\* construction of a second handler with the same name, when key is already
\* registered leaves persistenceKeys unchanged, and the config record
\* written to the backend lists the key exactly once.
C28_IdempotentRegistration == []C28_State /\ [][C28_Steps]_vars

\* a second container named s has been constructed: its key was registered
\* by the first, and the config record written lists it once
C28_Witness ==
  /\ last.op = "new" /\ last.c = 2
  /\ handler[1].kind = "StorageHandler"
  /\ handler[2].kind = "StorageHandler"
  /\ handler[1].key = handler[2].key
  /\ Installed
  /\ persistenceKeys = <<StoreKey>>
  /\ backend[ATHROK_CONFIG_LABEL] = ConfigText(<<StoreKey>>)
  /\ Len(backendLog) >= 2
  /\ backendLog[Len(backendLog)] = backendLog[Len(backendLog) - 1]


HasPrefix(key) == checkStartString(key, ATHROK_KEY_LABEL)

C29_State ==
  \* every cached key carries the prefix
  /\ \A key \in DOMAIN persistData : HasPrefix(key)
  \* and no other key's record was ever fetched
  /\ \A i \in DOMAIN backendLog :
       backendLog[i].op = "getItem" =>
         backendLog[i].key = ATHROK_CONFIG_LABEL \/ HasPrefix(backendLog[i].key)

C29_Steps ==
  \A key \in Range(persistenceKeys') :
    ~HasPrefix(key) =>
      /\ key \notin DOMAIN persistData'
      /\ \A i \in DOMAIN Calls : Calls[i].op = "getItem" => Calls[i].key # key

\* C29: initialize reads and caches only keys that carry the
\* persistence-key prefix: a registered key without the prefix never gets a
\* persistData entry (and is never fetched from the backend), so every key
\* of persistData starts with the prefix after any sequence of registry
\* operations.
C29_PrefixedOnly == []C29_State /\ [][C29_Steps]_vars

\* a synchronous initialize has ended: the key without the prefix is
\* registered and the backend holds a record under it, the cache has the
\* record of the prefixed key only
C29_Witness ==
  /\ last.op = "initialize" /\ ~last.thrown
  /\ isPersistDataRestored
  /\ PlainKey \in Range(persistenceKeys)
  /\ PlainKey \in DOMAIN backend
  /\ DOMAIN persistData = {SecondKey}

(***************************************************************************)
(* Containers and initialize together, under SpecRace: one persistent      *)
(* container, its debounced writes, keys registered and cleared, and       *)
(* initialize called (twice at most) with a synchronous or an asynchronous *)
(* backend that holds a record under the container's key or not.           *)
(***************************************************************************)
RaceBackends ==
  {Held(config, first, Null, Null) :
     config \in {Null, ConfigText(<<StoreKey>>)},
     first \in {Null, JSONstringify(StoredRecord)}}

RaceWorld ==
  [maxOps |-> MaxOpsRace, maxInits |-> MaxInits, steps |-> {MaxTime},
   containers |-> {1}, listeners |-> {},
   news |-> [type : {"AthrokStore", "AthrokState"}, initialValue : {AB},
             config : {[name |-> StoreName,
                        persist |-> [enable |-> TRUE, version |-> Num(1)]]}],
   updates |-> {Fn("bump")},
   keys |-> {StoreKey}]

InitRace ==
  \E held \in RaceBackends :
    InitWith(RaceWorld, [l \in Listeners |-> Plain], held)

NextRace ==
  \/ DoNew
  \/ DoGet
  \/ DoSet
  \/ DoSetPersistenceKey
  \/ DoClearPersistence
  \/ InitializeSync
  \/ InitializeAsync
  \/ DoResolveConfig
  \/ DoResolveKey
  \/ DoFire
  \/ DoTick

SpecRace == InitRace /\ [][NextRace]_vars


(***************************************************************************)
(* Properties of the restored flag and of hydration during a pending       *)
(* initialize, under SpecRace.                                             *)
(***************************************************************************)
C17_State == pending.calls = 0 => ~isPersistDataRestored

C17_Steps ==
  \* never back to false, whatever the step
  /\ isPersistDataRestored => isPersistDataRestored'
  \* set by the step that ends an initialize call, and by nothing else
  /\ isPersistDataRestored' # isPersistDataRestored =>
       /\ last'.op \in {"initialize", "resolveConfig", "resolveKey"}
       /\ OpenAfter(last'.c) = {}
       /\ ~last'.thrown
  \* a pass that ends sets it, with no key registered and no config record
  \* as well
  /\ Ends => isPersistDataRestored'

\* C17: isPersistDataRestored starts false, is set to true only at the end
\* of an initialize pass (also when the key set is empty and when the config
\* record is absent), and no operation (setPersistenceKey, clearPersistence,
\* container get/set, timer firing, a second initialize call) ever changes
\* it back to false.
C17_FlagMonotone == []C17_State /\ [][C17_Steps]_vars

\* a pass on an empty key set has set the flag, and a second initialize
\* call has been made since: the flag is still true
C17_Witness ==
  /\ last.op = "initializeAsync"
  /\ pending.calls = 2
  /\ isPersistDataRestored
  /\ persistenceKeys = <<>>
  /\ Len(backendLog) = 3
  /\ backendLog[2] = ConfigWrite(<<>>)


C18_Steps ==
  \A c \in Containers :
    \* the first get() or set() during a pending initialize hydrates from
    \* what the cache holds then
    /\ FirstAccess(c) /\ pending.open # {}
         /\ handler[c].kind = "StorageHandler" =>
         /\ master'[c].hydrated
         /\ probe'[c].got = getItem(handler[c], persistData).ret
         /\ handler[c].key \notin DOMAIN persistData =>
              /\ probe'[c].got = NotFound
              /\ StepOn("get", c) => last'.ret = master[c].initialValue
    \* and the result is kept: only set() changes the value from then on
    /\ master[c].hydrated /\ ~StepOn("set", c) =>
         /\ master'[c].currentValue = master[c].currentValue
         /\ probe'[c] = probe[c]
    /\ master[c].hydrated /\ StepOn("get", c) =>
         last'.ret = master[c].currentValue

\* C18: a container whose first get() or set() runs while an asynchronous
\* initialize is pending hydrates from what persistData holds at that moment
\* (possibly nothing, which gives the initial value) and keeps the result;
\* when initialize later resolves and caches the record of the container's
\* key, the container's current value is unchanged and get() never reflects
\* the cached record.
C18_HydrationRace == [][C18_Steps]_vars

\* the container was constructed and read while the one initialize call
\* was pending; the call has now cached the container's record and ended,
\* and the container still holds its initial value
C18_Witness ==
  /\ last.op = "resolveKey" /\ last.ret = Str(StoreKey)
  /\ pending = [calls |-> 1, open |-> {}]
  /\ isPersistDataRestored
  /\ Len(backendLog) >= 2
  /\ backendLog[1] = ReadCall(ATHROK_CONFIG_LABEL)
  /\ backendLog[2] = ConfigWrite(<<StoreKey>>)
  /\ master[1].hydrated
  /\ probe[1].got = NotFound
  /\ master[1].currentValue = master[1].initialValue
  /\ StoreKey \in DOMAIN persistData
  /\ getItem(handler[1], persistData).ret = Obj([a |-> Num(1)])



C22_Steps ==
  storage = UninitializedStorage /\ storage' = UninitializedStorage
    /\ ops' = ops + 1 =>
    \* no call raises, and nothing reaches a backend
    /\ ~last'.thrown
    /\ backend' = backend
    /\ backendLog' = backendLog
    \* the key set is updated all the same
    /\ CASE last'.op = "setPersistenceKey" ->
              persistenceKeys' = SetAdd(persistenceKeys, last'.arg.s)
         [] last'.op = "clearPersistence" ->
              persistenceKeys' = SetDelete(persistenceKeys, last'.arg.s)
         [] last'.op = "new" ->
              IF handler'[last'.c].kind = "StorageHandler"
              THEN persistenceKeys'
                     = SetAdd(persistenceKeys, handler'[last'.c].key)
              ELSE persistenceKeys' = persistenceKeys
         [] OTHER -> persistenceKeys' = persistenceKeys
    \* a debounced write that fires is gone
    /\ last'.op = "fire" => Cardinality(timers') = Cardinality(timers) - 1

\* C22: while no backend has been initialized, every registry and handler
\* operation (setPersistenceKey, clearPersistence, handler construction, a
\* debounced write firing) completes without raising: the uninitialized
\* backend does nothing, nothing is persisted, and the in-memory key set is
\* still updated.
C22_UninitializedBackend == [][C22_Steps]_vars

\* a debounced write has fired with no backend installed: the handler's key
\* is registered and no backend has seen a call
C22_Witness ==
  /\ storage = UninitializedStorage
  /\ last.op = "fire"
  /\ persistenceKeys = <<StoreKey>>
  /\ backendLog = <<>>
  /\ timers = {}

(***************************************************************************)
(* A backend that fails some of its calls, under SpecFault: the reads of   *)
(* some keys raise (or reject), the writes under the container's key may   *)
(* raise; one persistent container with its debounced writes, and          *)
(* initialize with a synchronous or an asynchronous backend.               *)
(***************************************************************************)
FaultSets ==
  [reads : SUBSET {ATHROK_CONFIG_LABEL, StoreKey, SecondKey},
   writes : SUBSET {StoreKey}]

FaultBackends ==
  {Held(config, JSONstringify(StoredRecord), JSONstringify(StoredRecord), Null) :
     config \in {Null, ConfigText(<<StoreKey, SecondKey>>)}}

FaultWorld ==
  [maxOps |-> MaxOpsFault, maxInits |-> 1, steps |-> {MaxTime},
   containers |-> {1}, listeners |-> {},
   news |-> {[type |-> "AthrokStore", initialValue |-> AB,
              config |-> [name |-> StoreName,
                          persist |-> [enable |-> TRUE, version |-> Num(1)]]]},
   updates |-> {Fn("bump")},
   keys |-> {SecondKey},
   faults |-> NoFaults]

InitFault ==
  \E held \in FaultBackends, faults \in FaultSets :
    InitWith([FaultWorld EXCEPT !.faults = faults],
             [l \in Listeners |-> Plain], held)

NextFault ==
  \/ DoNew
  \/ DoSet
  \/ DoSetPersistenceKey
  \/ InitializeSync
  \/ InitializeAsync
  \/ DoResolveConfig
  \/ DoResolveKey
  \/ DoFire
  \/ DoTick

SpecFault == InitFault /\ [][NextFault]_vars


(***************************************************************************)
(* Properties of failing backend calls, under SpecFault.                   *)
(***************************************************************************)
\* the reads of records (not of the config) that the step has issued and
\* that the backend fails
FailedReads ==
  {i \in DOMAIN Calls :
     /\ Calls[i].op = "getItem"
     /\ Calls[i].key # ATHROK_CONFIG_LABEL
     /\ Calls[i].key \in Faults.reads}

\* the step has issued no read twice
NoRetry ==
  \A i, j \in DOMAIN Calls :
    Calls[i].op = "getItem" /\ Calls[j] = Calls[i] => i = j

C21_OriginalSteps ==
  \* synchronous backend: the config read or a per-key read raises
  /\ RegistryStep("initialize") /\ (last'.arg = Rejects \/ FailedReads # {}) =>
       /\ last'.thrown
       /\ isPersistDataRestored' = isPersistDataRestored
       /\ NoRetry
  \* asynchronous backend: the config read rejects
  /\ RegistryStep("resolveConfig") /\ last'.arg = Rejects =>
       /\ last'.thrown
       /\ OpenAfter(last'.c) = {}
       /\ isPersistDataRestored' = isPersistDataRestored
       /\ Calls = <<>>
  \* asynchronous backend: a per-key read rejects, now or earlier in the pass
  /\ RegistryStep("resolveKey") =>
       /\ last'.arg = Rejects =>
            /\ last'.thrown
            /\ \A call \in OpenAfter(last'.c) : call.rejected
       /\ (last'.arg = Rejects
             \/ \E call \in pending.open : call.id = last'.c /\ call.rejected) =>
            /\ isPersistDataRestored' = isPersistDataRestored
            /\ Calls = <<>>

\* C21 as stated: a backend read that raises or rejects during initialize
\* (the config read or a per-key read, synchronous or asynchronous backend)
\* makes the initialize call fail to its caller; the read is not retried and
\* the pass does not report success.
C21_Original == [][C21_OriginalSteps]_vars


\* the cache, cut down to what it holds under key
Only(cache, key) == [k \in DOMAIN cache \cap {key} |-> cache[k]]

C24_Steps ==
  \A c \in Containers :
    \* the constructor derives the key and registers it
    /\ StepOn("new", c) /\ ~Unpersisted(last'.arg) =>
         /\ handler'[c].kind = "StorageHandler"
         /\ handler'[c].key = ATHROK_KEY_LABEL \o last'.arg["name"]
         /\ handler'[c].key \in Range(persistenceKeys')
    /\ handler[c].kind = "StorageHandler" =>
         \* the key never changes
         /\ handler'[c].kind = "StorageHandler"
         /\ handler'[c].key = handler[c].key
         \* the cache is read under that key and under no other
         /\ FirstAccess(c) =>
              /\ probe'[c].got
                   = getItem(handler[c], Only(persistData, handler[c].key)).ret
              /\ handler[c].key \notin DOMAIN persistData =>
                   probe'[c].got = NotFound
         \* the handler's write goes under that key
         /\ StepOn("fire", c) =>
              \A i \in DOMAIN Calls : Calls[i].key = handler[c].key
  \* and nothing but a handler's write and the registry's config write
  \* writes to the backend
  /\ \A i \in DOMAIN Calls :
       Calls[i].op = "setItem" /\ Calls[i].key # ATHROK_CONFIG_LABEL =>
         last'.op = "fire"

\* C24: constructing a persistence-enabled container named n registers the
\* key prefix+n in persistenceKeys before the constructor returns, and every
\* later cache read and backend write made by the container's handler uses
\* exactly that key, for the handler's whole life.
C24_HandlerKey == [][C24_Steps]_vars

\* the container named s has read the record cached under the key of s and
\* its debounced write has gone to the backend under the same key
C24_Witness ==
  /\ last.op = "fire" /\ last.c = 1 /\ ~last.thrown
  /\ handler[1].key = StoreKey
  /\ StoreKey \in Range(persistenceKeys)
  /\ probe[1].got = Obj([a |-> Num(1)])
  /\ backendLog # <<>>
  /\ backendLog[Len(backendLog)].op = "setItem"
  /\ backendLog[Len(backendLog)].key = StoreKey


(***************************************************************************)
(* The payload and the number of the debounced writes.                     *)
(***************************************************************************)
\* what the partial function of c's handler makes of data: data itself by
\* default, its property a alone otherwise
Kept(c, data) ==
  IF handler[c].config["partial"] = "identity" THEN data
  ELSE Obj([a |-> data.f["a"]])

C25_Steps ==
  \A c \in Containers :
    handler[c].kind = "StorageHandler" =>
      \* set() hands its new value to setItem, which schedules the write
      /\ StepOn("set", c) =>
           \E tm \in timers' \ timers :
             tm.c = c /\ tm.data = master'[c].currentValue
      \* the write, when it fires with a backend installed
      /\ StepOn("fire", c) /\ Installed =>
           \E tm \in timers \ timers' :
             /\ tm.c = c
             /\ Len(Calls) = 1
             /\ Calls[1].op = "setItem"
             /\ Calls[1].key = handler[c].key
             /\ Decodes(Calls[1].value)
             /\ JSONparse(Calls[1].value)
                  = Obj([value |-> Kept(c, tm.data),
                         version |-> handler[c].config["version"]])
             /\ backend'[handler[c].key] = Calls[1].value

\* C25: the backend write produced by a fired debounce timer is the
\* serialized record {value: partial(v), version: config.version} stored
\* under the handler's key, where v is the value passed to the setItem call
\* that scheduled the timer and partial defaults to identity.
C25_WritePayload == [][C25_Steps]_vars

\* {a: 0, b: 2} was bumped to {a: 1, b: 2}; the partial function kept a, and
\* the write that fired stored {value: {a: 1}, version: 1}
C25_Witness ==
  /\ last.op = "fire" /\ last.c = 1
  /\ handler[1].config["partial"] = "pickA"
  /\ master[1].currentValue = Obj([a |-> Num(1), b |-> Num(2)])
  /\ StoreKey \in DOMAIN backend
  /\ JSONparse(backend[StoreKey])
       = Obj([value |-> Obj([a |-> Num(1)]), version |-> Num(1)])


\* the write attempts the backend has received under the key of c's handler
Attempts(c, log) == Len(Writes(log, handler[c].key))

\* one container: every setTimeout so far was made by a setItem call of its
\* handler, one per set()
C26_State ==
  handler[1].kind = "StorageHandler" =>
    /\ Cardinality(Pending(1, timers)) <= 1
    /\ Attempts(1, backendLog) + Cardinality(Pending(1, timers))
         <= nextTimerId - 1

C26_Steps ==
  \A c \in Containers :
    handler[c].kind = "StorageHandler" =>
      \* a task that fires makes one attempt at most and leaves nothing
      \* scheduled, whether the write went through or raised
      /\ StepOn("fire", c) =>
           /\ Attempts(c, backendLog') <= Attempts(c, backendLog) + 1
           /\ Pending(c, timers') = {}
           /\ last'.thrown => backend' = backend
      \* nothing else writes under the key
      /\ ~StepOn("fire", c) =>
           Attempts(c, backendLog') = Attempts(c, backendLog)
      \* and only set() schedules a write
      /\ ~StepOn("set", c) => Pending(c, timers') \subseteq Pending(c, timers)
      /\ StepOn("set", c) => nextTimerId' = nextTimerId + 1

\* C26: no retry: each handler setItem call leads to at most one backend
\* write attempt, so the number of backend writes for a handler never
\* exceeds the number of set() calls on its container; after a timer has
\* fired (whether the backend write succeeded or failed) no further backend
\* write for that handler happens until another set() is called.
C26_NoRetry == []C26_State /\ [][C26_Steps]_vars

\* the one write of the container was attempted and failed; time has gone
\* on and nothing was written or scheduled since
C26_Witness ==
  /\ last.op = "tick"
  /\ StoreKey \in Faults.writes
  /\ handler[1].kind = "StorageHandler"
  /\ nextTimerId = 2
  /\ Attempts(1, backendLog) = 1
  /\ timers = {}


(***************************************************************************)
(* The order of the steps of set(), under SpecOrder: one persistent        *)
(* container with a backend, two listener functions that do nothing, call  *)
(* get(), call set() or raise, and a clock.                                *)
(***************************************************************************)
OrderBehaviours ==
  {b \in [Listeners -> {Plain, Getting, Setting(Seven), Throwing}] :
     /\ b[3] = Plain
     /\ Cardinality({l \in Listeners : b[l].kind = "set"}) <= 1}

OrderWorld ==
  [maxOps |-> MaxOpsOrder, maxInits |-> 1, steps |-> {MaxTime},
   containers |-> {1}, listeners |-> {1, 2},
   news |-> {[type |-> "AthrokStore", initialValue |-> AB,
              config |-> [name |-> StoreName,
                          persist |-> [enable |-> TRUE, version |-> Num(1)]]]},
   updates |-> {Fn("bump"), Five}]

InitOrder ==
  \E b \in OrderBehaviours : InitWith(OrderWorld, b, [k \in {} |-> Undef])

NextOrder ==
  \/ DoNew
  \/ DoSubscribe
  \/ DoSet
  \/ InitializeSync
  \/ DoFire
  \/ DoTick

SpecOrder == InitOrder /\ [][NextOrder]_vars

\* the value that the latest set() begun before event i of the call has
\* assigned
Assigned(call, i) ==
  LET k == CHOOSE k \in 1..i :
             /\ call.trace[k].e = "set"
             /\ \A j \in (k + 1)..i : call.trace[j].e # "set"
  IN IF k = 1 THEN Computed(call) ELSE call.trace[k].v

\* events i < j of the trace belong to the same set() call: same depth,
\* nothing shallower and no further set() at that depth in between
SameCall(trace, i, j) ==
  /\ i < j
  /\ trace[i].depth = trace[j].depth
  /\ \A k \in (i + 1)..(j - 1) :
       /\ trace[k].depth >= trace[i].depth
       /\ ~(trace[k].e = "set" /\ trace[k].depth = trace[i].depth)

C30_Steps ==
  \A c \in Containers :
    StepOn("set", c) =>
      LET trace == last'.trace
      IN \* the call begins with the assignment: what a listener is handed,
         \* and what get() gives it, is the value assigned
         /\ trace[1].e = "set"
         /\ \A i \in DOMAIN trace :
              trace[i].e \in {"listener", "get"} =>
                trace[i].v = Assigned(last', i)
         \* the write of a call is scheduled after the listeners of the
         \* call have returned, and is the last thing the call does
         /\ \A i, j \in DOMAIN trace :
              trace[i].e = "setItem" /\ SameCall(trace, i, j) =>
                trace[j].e = "set"
         /\ ~last'.thrown =>
              /\ trace[Len(trace)].e = "setItem"
              /\ trace[Len(trace)].depth = 0
              /\ handler[c].kind = "StorageHandler" =>
                   \E tm \in timers' :
                     /\ Pending(c, timers') = {tm}
                     /\ tm.data = master'[c].currentValue
                     /\ tm.due > now
         \* no backend is called inside set()
         /\ backendLog' = backendLog
         /\ backend' = backend

\* the backend write is made by a task that fires after the set() that
\* scheduled it has returned
C30_Fires ==
  \A i \in DOMAIN Calls :
    Calls[i].op = "setItem" /\ Calls[i].key # ATHROK_CONFIG_LABEL =>
      last'.op = "fire" /\ last.op # "fire"

\* C30: step order inside one set(): the new value is assigned before any
\* listener runs (get() called inside a listener returns the new value), the
\* debounced write is scheduled only after all listeners have returned, and
\* the backend write itself happens strictly after set() has returned, never
\* inside the set() call.
C30_SetOrder == [][C30_Steps /\ C30_Fires]_vars

\* a listener that calls get() got the bumped value inside set(); the write
\* was scheduled after it and has reached the backend when its task fired
C30_Witness ==
  /\ last.op = "fire" /\ last.c = 1
  /\ behaviour[1] = Getting
  /\ master[1].listeners = <<1>>
  /\ master[1].currentValue = Obj([a |-> Num(1), b |-> Num(2)])
  /\ Len(Writes(backendLog, StoreKey)) = 1
  /\ JSONparse(backend[StoreKey]).f["value"] = master[1].currentValue


\* event k of the trace is a set(w) that a listener of the outer round made
NestedSet(trace, k) == trace[k].e = "set" /\ trace[k].depth = 1

C33_Steps ==
  \A c \in Containers :
    StepOn("set", c) =>
      LET trace == last'.trace
      IN \* get() inside a listener returns what the listener was handed
         /\ \A i \in DOMAIN trace :
              trace[i].e = "get" =>
                /\ i > 1
                /\ trace[i - 1].e = "listener"
                /\ trace[i - 1].l = trace[i].l
                /\ trace[i - 1].v = trace[i].v
         \* after set(w) by a listener, the outer round goes on with w
         /\ \A k \in DOMAIN trace :
              NestedSet(trace, k) =>
                /\ \A j \in DOMAIN trace :
                     j > k /\ trace[j].e \in {"listener", "get"} =>
                       trace[j].v = trace[k].v
                /\ master'[c].currentValue = trace[k].v
                \* and, the call returning, the one pending write holds w
                /\ ~last'.thrown /\ handler[c].kind = "StorageHandler" =>
                     \E tm \in timers' :
                       /\ timers' = {tm}
                       /\ tm.data = trace[k].v

\* C33: every listener invocation receives the container's current value
\* at the moment it is invoked (the argument equals what get() returns
\* inside the listener); when a listener calls set(w) during the round of
\* set(v), the listeners later in the outer round are invoked with w, and
\* the single pending debounced write of the returning call carries w.
C33_CurrentValue == [][C33_Steps]_vars

\* listener 1 called set({a:7}) in the round of another set(); listener 2,
\* later in the outer round, was handed {a:7} and read it with get(); the
\* one pending write holds {a:7}
C33_Witness ==
  /\ last.op = "set" /\ last.c = 1
  /\ ~last.thrown
  /\ behaviour[1] = Setting(Seven) /\ behaviour[2] = Getting
  /\ master[1].listeners = <<1, 2>>
  /\ Len(Round(last.trace)) = 2
  /\ Round(last.trace)[1].l = 1 /\ Round(last.trace)[1].v = Computed(last)
  /\ Round(last.trace)[2].l = 2 /\ Round(last.trace)[2].v = Seven
  /\ last.trace[Len(last.trace) - 1].e = "get"
  /\ last.trace[Len(last.trace) - 1].v = Seven
  /\ \E tm \in timers : timers = {tm} /\ tm.data = Seven

\* a listener raised during the call
Raised(trace) == \E i \in DOMAIN trace : trace[i].e = "throw"

C39_Steps ==
  \A c \in Containers :
    StepOn("set", c) =>
      LET trace == last'.trace
      IN /\ last'.thrown <=> Raised(trace)
         /\ Raised(trace) =>
              \* nothing is done after the listener has raised
              /\ \A i \in DOMAIN trace :
                   trace[i].e = "throw" => i = Len(trace)
              /\ \A l \in Range(master[c].listeners) :
                   (\E i \in DOMAIN trace :
                      trace[i].e = "listener" /\ trace[i].l = l)
                     \/ \E i \in DOMAIN master[c].listeners :
                          /\ master[c].listeners[i] = trace[Len(trace)].l
                          /\ \E j \in DOMAIN master[c].listeners :
                               i < j /\ master[c].listeners[j] = l
              \* the value assigned stays
              /\ master'[c].currentValue = Assigned(last', Len(trace))
              /\ master'[c].hydrated
              \* no write is scheduled, none is cancelled
              /\ \A i \in DOMAIN trace : trace[i].e # "setItem"
              /\ timers' = timers
              /\ nextTimerId' = nextTimerId
              /\ handler' = handler

\* C39: if a listener raises during set(), the exception propagates to the
\* caller of set(); the new value stays assigned, the listeners later in
\* subscription order are not invoked for that set(), and no debounced
\* write is scheduled for it (a previously pending write is neither
\* cancelled nor replaced).
C39_RaisingListener == [][C39_Steps]_vars

\* listener 1 raised in a set(): listener 2 was not invoked, the value is
\* assigned and the write that an earlier set() scheduled is still the one
\* pending, with the earlier value
C39_Witness ==
  /\ last.op = "set" /\ last.c = 1
  /\ last.thrown
  /\ behaviour[1] = Throwing
  /\ master[1].listeners = <<1, 2>>
  /\ Notified(last) = <<1>>
  /\ master[1].currentValue = Computed(last)
  /\ nextTimerId = 2
  /\ \E tm \in timers :
       /\ timers = {tm}
       /\ tm.id = 1
       /\ tm.data # master[1].currentValue


(***************************************************************************)
(* Two containers constructed with the same name: two handlers that share  *)
(* one key, each with a timer slot of its own, and one cache entry.  Under *)
(* SpecShared the backend is synchronous and holds a record under the key  *)
(* or not.                                                                 *)
(***************************************************************************)
MaxOpsShared == 8

SharedWorld ==
  [maxOps |-> MaxOpsShared, maxInits |-> 1, steps |-> {50, MaxTime},
   containers |-> {1, 2}, listeners |-> {},
   news |-> {[type |-> "AthrokStore", initialValue |-> AB,
              config |-> [name |-> StoreName,
                          persist |-> [enable |-> TRUE,
                                       version |-> Num(1)]]]},
   updates |-> {Fn("bump"), Five},
   keys |-> {StoreKey}]

InitShared ==
  \E held \in RaceBackends :
    InitWith(SharedWorld, [l \in Listeners |-> Plain], held)

NextShared ==
  \/ DoNew
  \/ DoGet
  \/ DoSet
  \/ DoSetPersistenceKey
  \/ DoClearPersistence
  \/ InitializeSync
  \/ DoFire
  \/ DoTick

SpecShared == InitShared /\ [][NextShared]_vars

\* the scheduled writes for key that have not fired, of whichever handler
KeyPending(key, tms) ==
  {tm \in tms : handler[tm.c].kind = "StorageHandler"
                  /\ handler[tm.c].key = key}

C32_OriginalSteps ==
  \A c \in Containers :
    handler[c].kind = "StorageHandler" /\ StepOn("set", c) =>
      \E tm \in timers' :
        /\ KeyPending(handler[c].key, timers') = {tm}
        /\ tm.data = last'.ret

\* C32 as stated: writes to one key within the debounce window are
\* coalesced into a single delayed backend write for that key, also when
\* they come from two containers constructed with the same name.
C32_Original == [][C32_OriginalSteps]_vars

C32_Steps ==
  \A c \in Containers :
    handler[c].kind = "StorageHandler" =>
      /\ Cardinality(Pending(c, timers)) <= 1
      /\ StepOn("set", c) =>
           /\ \E tm \in timers' :
                /\ Pending(c, timers') = {tm}
                /\ tm \notin timers
                /\ tm.data = last'.ret
                /\ tm.due = now + handler[c].config["debounceTime"]
           \* the pending write of another handler, of the same key or
           \* not, is left alone
           /\ \A d \in Containers \ {c} :
                Pending(d, timers') = Pending(d, timers)
           /\ Writes(backendLog', handler[c].key)
                = Writes(backendLog, handler[c].key)
      /\ StepOn("fire", c) =>
           /\ \E tm \in timers :
                /\ Pending(c, timers) = {tm}
                /\ storage # UninitializedStorage =>
                     Writes(backendLog', handler[c].key)
                       = Append(Writes(backendLog, handler[c].key),
                                [op |-> "setItem", key |-> handler[c].key,
                                 value |-> Payload(handler[c], tm.data)])
           /\ Pending(c, timers') = {}
           /\ \A d \in Containers \ {c} :
                Pending(d, timers') = Pending(d, timers)

\* C32, amended: rapid successive writes through one handler within the
\* debounce window are coalesced into a single delayed backend write; two
\* containers constructed with the same name have two handlers with a
\* timer slot each, so the writes of one neither cancel nor replace the
\* pending write of the other, and the key is written once per handler.
C32_PerHandler == [][C32_Steps]_vars

\* one set() on each of two containers of the same name, within the
\* window, and the two writes under the one key that followed
C32_Witness ==
  /\ last.op = "fire"
  /\ handler[1].kind = "StorageHandler" /\ handler[2].kind = "StorageHandler"
  /\ handler[1].key = handler[2].key
  /\ nextTimerId = 3
  /\ timers = {}
  /\ now = DefaultDebounceTime
  /\ Len(Writes(backendLog, StoreKey)) = 2



(***************************************************************************)
(* What follows clearPersistence, under SpecRace: the record, the pending  *)
(* write and the cache.                                                    *)
(***************************************************************************)
\* the step is clearPersistence(key) with a backend installed
Clears(key) ==
  /\ RegistryStep("clearPersistence")
  /\ last'.arg = Str(key)
  /\ storage # UninitializedStorage

C34_OriginalSteps ==
  \A key \in {StoreKey} :
    /\ Clears(key) => key \notin DOMAIN backend'
    /\ key \notin Range(persistenceKeys)
         /\ key \notin Range(persistenceKeys')
         /\ key \notin DOMAIN backend
         => key \notin DOMAIN backend'

\* C34 as stated: after clearPersistence(key) the backend holds no record
\* under key until the key is registered again: neither a debounced write
\* that was pending nor a later set() on the live container re-creates it.
C34_Original == [][C34_OriginalSteps]_vars

C34_Steps ==
  \A key \in {StoreKey} :
    \* the record is removed, the pending write is not cancelled
    /\ Clears(key) =>
         /\ key \notin DOMAIN backend'
         /\ timers' = timers
         /\ handler' = handler
    \* set() schedules a write for a cleared key as for any other
    /\ \A c \in Containers :
         /\ handler[c].kind = "StorageHandler"
         /\ handler[c].key = key
         /\ StepOn("set", c)
         => \E tm \in timers' : tm.c = c /\ tm.data = master'[c].currentValue
    \* only a debounced write that fires re-creates the record, and it
    \* does so whether the key is registered or not
    /\ key \notin DOMAIN backend /\ key \in DOMAIN backend' =>
         /\ last'.op = "fire"
         /\ handler[last'.c].key = key
    /\ \A c \in Containers :
         /\ StepOn("fire", c)
         /\ handler[c].key = key
         /\ storage # UninitializedStorage
         => /\ key \in DOMAIN backend'
            /\ backend'[key] = Payload(handler[c], last'.arg)

\* C34, amended: clearPersistence(key), with a backend installed, removes
\* the record under key, and the backend holds none until a debounced write
\* for key fires: clearPersistence does not cancel a write that is pending
\* and a later set() on the still-live container schedules one as usual;
\* when such a write fires it re-creates the record, registered or not.
C34_ClearedUntilWritten == [][C34_Steps]_vars

\* the key was cleared with a backend installed and is not registered; the
\* write that fired afterwards has put a record under it again
C34_Witness ==
  /\ last.op = "fire" /\ last.c = 1
  /\ storage # UninitializedStorage
  /\ StoreKey \notin Range(persistenceKeys)
  /\ \E i \in DOMAIN backendLog :
       /\ backendLog[i] = [op |-> "removeItem", key |-> StoreKey,
                           value |-> Undef]
       /\ \A j \in DOMAIN backendLog :
            j < i => backendLog[j].key # StoreKey
       /\ i < Len(backendLog)
       /\ backendLog[Len(backendLog)].op = "setItem"
       /\ backendLog[Len(backendLog)].key = StoreKey
  /\ StoreKey \in DOMAIN backend


\* the steps of initialize calls
InitializeOps == {"initialize", "initializeAsync", "resolveConfig", "resolveKey"}

\* what a record-style container with the initial value {a:0, b:2} holds
\* once it has merged the cached record {value: {a:1}, version: 1}
MergedAB == Obj([a |-> Num(1), b |-> Num(2)])

C35_Steps ==
  /\ persistData' # persistData => last'.op \in InitializeOps
  /\ \A c \in Containers :
       /\ Unread(c)
       /\ handler[c].kind = "StorageHandler"
       /\ Cached(c) = StoredRecord
       => /\ StepOn("get", c) => last'.ret = MergedAB
          /\ StepOn("set", c) /\ last'.arg.t = "function" =>
               last'.args = <<MergedAB>>

\* C35: persistData is modified only by initialize: container set(), a
\* debounced write firing, setPersistenceKey and clearPersistence all leave
\* it unchanged, so after a set() or after clearPersistence(key) a container
\* created later with the same name still hydrates from the record that
\* was cached at initialize time.
C35_CacheOnlyByInitialize == [][C35_Steps]_vars

\* container 1 has been written to and the key cleared (its record is gone
\* from the backend); the first get() on container 2, of the same name,
\* returns the merge with the record cached at initialize time
C35_Witness ==
  /\ last.op = "get" /\ last.c = 2
  /\ ops = 6
  /\ probe[2].getItemCalls = 1
  /\ last.ret = MergedAB
  /\ master[1].hydrated /\ master[1].currentValue # MergedAB
  /\ \E tm \in timers : tm.c = 1
  /\ StoreKey \notin DOMAIN backend
  /\ \E i \in DOMAIN backendLog :
       backendLog[i] = [op |-> "removeItem", key |-> StoreKey, value |-> Undef]
  /\ StoreKey \in DOMAIN persistData
  /\ persistData[StoreKey] = StoredRecord



(***************************************************************************)
(* A cleared key and the config record, under SpecRegistry.                *)
(***************************************************************************)
\* the config record that held has lists key
ConfigLists(held, key) ==
  /\ ATHROK_CONFIG_LABEL \in DOMAIN held
  /\ key \in Range(Listed(held[ATHROK_CONFIG_LABEL]))

\* clearPersistence(key) has been called with a backend installed
WasCleared(key) == \E i \in DOMAIN backendLog : backendLog[i] = RemoveCall(key)

\* the step is setPersistenceKey(key), called by the program or by the
\* constructor of a handler
RegistersKey(key) ==
  \/ RegistryStep("setPersistenceKey") /\ last'.arg = Str(key)
  \/ \E c \in Containers :
       /\ StepOn("new", c)
       /\ handler'[c].kind = "StorageHandler"
       /\ handler'[c].key = key

\* the step is the part of an initialize call that adds the keys its config
\* read has listed, key among them
RestoresKey(key) ==
  /\ RegistryStep("initialize") \/ RegistryStep("resolveConfig")
  /\ key \in Range(Listed(last'.arg))

\* the step is clearPersistence(key): the key leaves the set and the
\* config record
ClearedByStep(key) ==
  RegistryStep("clearPersistence") /\ last'.arg = Str(key) =>
    /\ key \notin Range(persistenceKeys')
    /\ Installed => ~ConfigLists(backend', key)

C36_OriginalSteps ==
  \A key \in world.keys :
    /\ ClearedByStep(key)
    /\ WasCleared(key) =>
         /\ key \notin Range(persistenceKeys)
              /\ key \in Range(persistenceKeys') => RegistersKey(key)
         /\ ~ConfigLists(backend, key)
              /\ ConfigLists(backend', key) => RegistersKey(key)

\* C36 as stated: a key removed by clearPersistence stays out of
\* persistenceKeys and out of the backend's config record until
\* setPersistenceKey is called for it again, also when the clearPersistence
\* call happens while an asynchronous initialize awaits its config read.
C36_Original == [][C36_OriginalSteps]_vars

C36_Steps ==
  \A key \in world.keys :
    /\ ClearedByStep(key)
    /\ key \notin Range(persistenceKeys)
         /\ key \in Range(persistenceKeys')
         => RegistersKey(key) \/ RestoresKey(key)
    \* the config record gains no key that the set does not hold
    /\ ~ConfigLists(backend, key) /\ ConfigLists(backend', key)
         => key \in Range(persistenceKeys')

\* C36, amended: a key removed by clearPersistence stays out of
\* persistenceKeys and out of the backend's config record until it is
\* added again, by setPersistenceKey or by an initialize call whose config
\* read lists it: when clearPersistence is called while an asynchronous
\* initialize awaits a config read that lists the key, the key is back,
\* in the set and in the config record, once that read has resolved.
C36_ClearedUntilAdded == [][C36_Steps]_vars

\* the key was cleared while the config read of an asynchronous initialize
\* was awaited; the read has resolved and the key is registered and listed
\* again
C36_Witness ==
  /\ last.op = "resolveConfig"
  /\ ops = 3
  /\ WasCleared(StoreKey)
  /\ StoreKey \in Range(persistenceKeys)
  /\ ConfigLists(backend, StoreKey)
  /\ backendLog[Len(backendLog)].op = "getItem"
  /\ \E i, j \in DOMAIN backendLog :
       /\ i < j
       /\ backendLog[i] = ConfigWrite(<<>>)
       /\ backendLog[j] = ConfigWrite(persistenceKeys)



(***************************************************************************)
(* The backend a debounced write reaches, under SpecShared.                *)
(***************************************************************************)
C37_Steps ==
  /\ \A c \in Containers :
       StepOn("fire", c) /\ handler[c].kind = "StorageHandler" =>
         \E tm \in timers :
           /\ Pending(c, timers) = {tm}
           /\ timers' = timers \ {tm}
           /\ IF storage # UninitializedStorage
              THEN \* the backend installed now is written to
                   /\ Calls = <<[op |-> "setItem", key |-> handler[c].key,
                                 value |-> Payload(handler[c], tm.data)]>>
                   /\ backend'[handler[c].key] = Payload(handler[c], tm.data)
              ELSE \* the write is dropped
                   /\ Calls = <<>>
                   /\ backend' = backend
  \* installing the backend leaves the pending writes as they are
  /\ RegistryStep("initialize") => timers' = timers
  \* only set() schedules a write: nothing re-issues one that was dropped
  /\ (\E tm \in timers' : tm \notin timers) => last'.op = "set"
  /\ \A i \in DOMAIN Calls :
       Calls[i].op = "setItem" /\ Calls[i].key # ATHROK_CONFIG_LABEL =>
         last'.op = "fire"

\* C37: a debounced write goes to the backend that is installed when the
\* timer fires, not the one installed when set() was called: a write
\* scheduled before initialize and fired after initialize has installed the
\* backend reaches that backend, while a write fired while the backend is
\* still uninitialized is dropped and never re-issued.
C37_BackendAtFireTime == [][C37_Steps]_vars

\* set(bump) was called before initialize (it hydrated from an empty cache:
\* {a:0,b:2} became {a:1,b:2}, although initialize has since cached a
\* record); its write fired after initialize and is in the backend
C37_Witness ==
  /\ last.op = "fire" /\ last.c = 1
  /\ last.arg = MergedAB
  /\ master[1].currentValue = MergedAB
  /\ nextTimerId = 2
  /\ storage # UninitializedStorage
  /\ handler[1].kind = "StorageHandler"
  /\ StoreKey \in DOMAIN persistData
  /\ persistData[StoreKey] = StoredRecord
  /\ StoreKey \in DOMAIN backend
  /\ Writes(backendLog, StoreKey)
       = <<[op |-> "setItem", key |-> StoreKey,
            value |-> Payload(handler[1], MergedAB)]>>
  /\ backend[StoreKey] = Payload(handler[1], MergedAB)



(***************************************************************************)
(* set() while an asynchronous initialize is pending, under SpecRace.      *)
(***************************************************************************)
\* the backend holds the record r under the key of c's handler
HoldsRecord(c) ==
  /\ handler[c].kind = "StorageHandler"
  /\ handler[c].key \in DOMAIN backend
  /\ backend[handler[c].key] = JSONstringify(StoredRecord)

\* the step is set(f) on c, f a function and the call the first access of
\* c, while an initialize call awaits a read
SetWhilePending(c) ==
  /\ StepOn("set", c)
  /\ Unread(c)
  /\ last'.arg.t = "function"
  /\ pending.open # {}

\* f was applied to the initial value and the result awaits its write
AppliedToInitial(c) ==
  /\ last'.args = <<master[c].initialValue>>
  /\ master'[c].currentValue = Update(last'.arg.fn, master[c].initialValue)
  /\ \E tm \in timers' :
       /\ Pending(c, timers') = {tm}
       /\ tm.data = Update(last'.arg.fn, master[c].initialValue)

C38_OriginalSteps ==
  \A c \in Containers :
    SetWhilePending(c) /\ HoldsRecord(c) => AppliedToInitial(c)

C38_Steps ==
  \A c \in Containers :
    /\ SetWhilePending(c) /\ HoldsRecord(c)
         /\ handler[c].key \notin DOMAIN persistData
         => AppliedToInitial(c)
    \* the write that fires replaces r by the value that was scheduled
    /\ StepOn("fire", c) /\ HoldsRecord(c) /\ Installed =>
         /\ backend'[handler[c].key] = Payload(handler[c], last'.arg)
         /\ \E tm \in timers : Pending(c, timers) = {tm} /\ tm.data = last'.arg

MaxOpsRoundTrip == 9

\* an object with a property whose value is undefined
Blank == Obj([a |-> Undef])

RoundTripWorld ==
  [maxOps |-> MaxOpsRoundTrip, maxInits |-> MaxInits, steps |-> {MaxTime},
   containers |-> {1}, listeners |-> {},
   news |-> {[type |-> "AthrokStore", initialValue |-> AB,
              config |-> [name |-> StoreName,
                          persist |-> [enable |-> TRUE, version |-> Num(1)]]],
             [type |-> "AthrokState", initialValue |-> Ten,
              config |-> [name |-> StoreName,
                          persist |-> [enable |-> TRUE, version |-> Num(1)]]]},
   updates |-> {Fn("bump"), Five, Blank, NaN}]

InitRoundTrip ==
  InitWith(RoundTripWorld, [l \in Listeners |-> Plain], [k \in {} |-> Undef])

NextRoundTrip ==
  \/ DoNew
  \/ DoGet
  \/ DoSet
  \/ InitializeSync
  \/ DoFire
  \/ DoTick
  \/ Restart

SpecRoundTrip == InitRoundTrip /\ [][NextRoundTrip]_vars

\* the value v that the container of the ended program held
Held_v(c) == probe[c].ended.mst.currentValue

\* what JSON.parse(JSON.stringify({value: v})).value is
ThroughJson(v) == Prop(JSONparse(JSONstringify(Obj([value |-> v]))), "value")

\* the step is the first get() on c, a fresh container of a registry that
\* has been initialized on the backend to which the container of the same
\* name, type, initial value and configuration (identity partial, the same
\* version) of the ended program has written v
RoundTrip(c) ==
  /\ StepOn("get", c)
  /\ Unread(c)
  /\ isPersistDataRestored
  /\ handler[c].kind = "StorageHandler"
  /\ probe[c].ended.hnd = [handler[c] EXCEPT !.timeoutId =
                             probe[c].ended.hnd.timeoutId]
  /\ handler[c].config["partial"] = "identity"
  /\ probe[c].ended.mst.hydrated
  /\ probe[c].ended.mst.type = master[c].type
  /\ probe[c].ended.mst.initialValue = master[c].initialValue
  /\ handler[c].key \in DOMAIN backend
  /\ backend[handler[c].key]
       = JSONstringify(Obj([value |-> Held_v(c),
                            version |-> handler[c].config["version"]]))

C40_OriginalSteps ==
  \A c \in Containers :
    RoundTrip(c) =>
      IF master[c].type = "AthrokStore"
      THEN IsSpreadOf(last'.ret, master[c].initialValue, Held_v(c))
      ELSE ~isObject(Held_v(c)) => last'.ret = Held_v(c)

\* C40 as stated: after set(v) and the firing of its debounced write, a
\* fresh registry initialized on the same backend followed by a fresh
\* container with the same name and initial value yields get() = shallow
\* merge of the initial value with v for a record-style container, and
\* get() = v for a scalar-style container holding a non-object v.
C40_Original == [][C40_OriginalSteps]_vars

C40_Steps ==
  \A c \in Containers :
    RoundTrip(c) =>
      IF master[c].type = "AthrokStore"
      THEN IsSpreadOf(last'.ret, master[c].initialValue,
                      ThroughJson(Held_v(c)))
      ELSE ~isObject(Held_v(c)) => last'.ret = ThroughJson(Held_v(c))

\* C40, amended: under the same conditions get() yields the shallow merge
\* of the initial value with what JSON.parse(JSON.stringify(v)) gives for a
\* record-style container, and what JSON.parse(JSON.stringify(v)) gives for
\* a scalar-style container holding a non-object v; this is v itself only
\* when JSON represents v exactly (a property whose value is undefined is
\* dropped, so the initial value's property shows again, and NaN comes back
\* as null).
C40_RoundTrip == [][C40_Steps]_vars

\* the record-style container held {a:5} when the program ended, its write
\* had fired; the fresh container {a:0,b:2} of the program started anew
\* returns {a:5,b:2}
C40_Witness ==
  /\ last.op = "get" /\ last.c = 1
  /\ master[1].type = "AthrokStore"
  /\ probe[1].getItemCalls = 1
  /\ probe[1].ended.mst.live
  /\ probe[1].ended.mst.type = "AthrokStore"
  /\ probe[1].ended.mst.currentValue = Five
  /\ StoreKey \in DOMAIN backend
  /\ backend[StoreKey] = JSONstringify(Obj([value |-> Five, version |-> Num(1)]))
  /\ isPersistDataRestored
  /\ last.ret = Obj([a |-> Num(5), b |-> Num(2)])

=============================================================================
